---------------------------- MODULE Spec2Model ----------------------------
(***************************************************************************)
(* Persistence layer of Snippet Manager Pro (snippet_manager/database.py): *)
(* the JSON store file, load_snippets / save_snippets, the index-addressed *)
(* bulk operations, the import adapter and the tag / template queries.     *)
(***************************************************************************)
EXTENDS Integers, Sequences, FiniteSets, TLC

VARIABLES file, last, win, target, calls

vars == <<file, last, win, target, calls>>

(***************************************************************************)
(* Values.  A Python / JSON value is a record [k, v]: k is its type and v  *)
(* its payload as a sequence of strings, so that any two values compare.   *)
(* "tuple" and "object" exist only on the Python side: json.dump writes a  *)
(* tuple as an array and raises TypeError on any other object.             *)
(***************************************************************************)
Str(s) == [k |-> "str", v |-> <<s>>]

Bool(b) == [k |-> "bool", v |-> <<IF b THEN "true" ELSE "false">>]

List(ts) == [k |-> "list", v |-> ts]

Tuple(ts) == [k |-> "tuple", v |-> ts]

Num(s) == [k |-> "int", v |-> <<s>>]

Null == [k |-> "null", v |-> <<>>]

Obj == [k |-> "object", v |-> <<>>]

\* Python truthiness of a value (if tags: ..., s.get("is_template", False)).
Truthy(x) ==
    CASE x.k = "bool" -> x.v = <<"true">>
      [] x.k = "str" -> x.v # <<"">>
      [] x.k = "int" -> x.v # <<"0">>
      [] x.k \in {"list", "tuple"} -> x.v # <<>>
      [] x.k = "null" -> FALSE
      [] OTHER -> TRUE

\* isinstance(x, list)
IsList(x) == x.k = "list"

(***************************************************************************)
(* Dictionaries: functions from the keys present to values.                *)
(***************************************************************************)
NoDict == [key \in {} |-> Null]

DictGet(d, key, default) == IF key \in DOMAIN d THEN d[key] ELSE default

DictSet(d, key, val) ==
    [x \in (DOMAIN d) \cup {key} |-> IF x = key THEN val ELSE d[x]]

\* A merge in which the keys already present keep their value.
DictUpdateKeepsOld(d, patch) ==
    [x \in (DOMAIN d) \cup (DOMAIN patch) |->
        IF x \in DOMAIN d THEN d[x] ELSE patch[x]]

\* for key, value in update_data.items(): snippet[key] = value
DictUpdate(d, patch) ==
    [x \in (DOMAIN d) \cup (DOMAIN patch) |->
        IF x \in DOMAIN patch THEN patch[x] ELSE d[x]]

(***************************************************************************)
(* Elements of a list: a mapping, a bare string, or anything else (a       *)
(* number, null, a nested array).                                          *)
(***************************************************************************)
DictE(d) == [k |-> "dict", s |-> "", d |-> d]

StrE(s) == [k |-> "str", s |-> s, d |-> NoDict]

OtherE(s) == [k |-> "other", s |-> s, d |-> NoDict]

(***************************************************************************)
(* The store file: absent, present but unreadable, not valid JSON          *)
(* (including an empty or truncated file), valid JSON whose top-level      *)
(* value is not an array, or a JSON array.                                 *)
(***************************************************************************)
Absent == [k |-> "absent", items |-> <<>>]

Unreadable == [k |-> "unreadable", items |-> <<>>]

Garbage == [k |-> "garbage", items |-> <<>>]

Scalar == [k |-> "scalar", items |-> <<>>]

Array(items) == [k |-> "array", items |-> items]

\* A diagnostic message: a format and the count it interpolates (0 if none).
Msg(fmt, n) == [fmt |-> fmt, n |-> n]

(***************************************************************************)
(* _get_default_snippets                                                   *)
(***************************************************************************)
\* The two seeds with the template first.
SeedsTemplateFirst ==
    << DictE([text |-> Str("markdown_template"), label |-> Str("Meeting Notes"),
              tags |-> List(<<"template", "business">>),
              is_markdown |-> Bool(TRUE), is_template |-> Bool(TRUE)]),
       DictE([text |-> Str("wp_creds"), label |-> Str("WordPress Login"),
              tags |-> List(<<"credentials", "web">>),
              is_markdown |-> Bool(FALSE), is_template |-> Bool(FALSE)]) >>

DefaultSnippets ==
    << DictE([text |-> Str("wp_creds"), label |-> Str("WordPress Login"),
              tags |-> List(<<"credentials", "web">>),
              is_markdown |-> Bool(FALSE), is_template |-> Bool(FALSE)]),
       DictE([text |-> Str("markdown_template"), label |-> Str("Meeting Notes"),
              tags |-> List(<<"template", "business">>),
              is_markdown |-> Bool(TRUE), is_template |-> Bool(TRUE)]) >>

\* The minimal snippet built from a bare string (load and import).
FromString(s) ==
    DictE([text |-> Str(s), label |-> Str(""), tags |-> List(<<>>),
           is_markdown |-> Bool(FALSE), is_template |-> Bool(FALSE)])

(***************************************************************************)
(* load_snippets                                                           *)
(***************************************************************************)
\* if "k" not in snippet: snippet["k"] = default
SetDefault(d, key, val) == IF key \in DOMAIN d THEN d ELSE DictSet(d, key, val)

\* "Add missing fields for older snippets": only absent keys are filled.
LoadDict(d) ==
    SetDefault(SetDefault(SetDefault(SetDefault(SetDefault(d,
        "text", Str("")), "label", Str("")), "tags", List(<<>>)),
        "is_markdown", Bool(FALSE)), "is_template", Bool(FALSE))

\* One element of the parsed array: what the loop appends for it (a mapping
\* is completed, a string converted, anything else appends nothing).
LoadElement(e) ==
    IF e.k = "dict" THEN <<DictE(LoadDict(e.d))>>
    ELSE IF e.k = "str" THEN <<FromString(e.s)>>
    ELSE <<>>

RECURSIVE LoadLoop(_)
LoadLoop(items) ==
    IF items = <<>> THEN <<>>
    ELSE LoadElement(Head(items)) \o LoadLoop(Tail(items))

\* The value load_snippets returns: always a (list, message) pair.
LoadResult(list, msg) == [ret |-> "pair", list |-> list, msg |-> msg]

\* A load that lets the JSON decoding error escape.
LoadSnippetsNoCatch(f) ==
    IF f.k = "absent" THEN
        LoadResult(DefaultSnippets, Msg("Created default snippets", 0))
    ELSE IF f.k = "unreadable" THEN
        LoadResult(<<>>, Msg("Error loading snippets: {e}", 0))
    ELSE IF f.k = "garbage" THEN
        [ret |-> "raise", list |-> <<>>, msg |-> Msg("", 0)]
    ELSE IF f.k # "array" THEN
        LoadResult(<<>>, Msg("Invalid snippet format", 0))
    ELSE IF f.items = <<>> THEN
        LoadResult(<<>>, Msg("No snippets found", 0))
    ELSE LET updated == LoadLoop(f.items)
         IN LoadResult(updated, Msg("Loaded {n} saved snippets", Len(updated)))

LoadSnippets(f) ==
    IF f.k = "absent" THEN
        LoadResult(DefaultSnippets, Msg("Created default snippets", 0))
    ELSE IF f.k = "unreadable" THEN
        LoadResult(<<>>, Msg("Error loading snippets: {e}", 0))
    ELSE IF f.k = "garbage" THEN
        LoadResult(<<>>, Msg("Error reading saved snippets file", 0))
    ELSE IF f.k # "array" THEN
        LoadResult(<<>>, Msg("Invalid snippet format", 0))
    ELSE IF f.items = <<>> THEN
        LoadResult(<<>>, Msg("No snippets found", 0))
    ELSE LET updated == LoadLoop(f.items)
         IN LoadResult(updated, Msg("Loaded {n} saved snippets", Len(updated)))

(***************************************************************************)
(* save_snippets                                                           *)
(***************************************************************************)
\* A normalization that resets tags whatever it holds.
SaveDictResetsTags(d) ==
    SetDefault(SetDefault(DictSet(d, "tags", List(<<>>)),
                          "is_markdown", Bool(FALSE)),
               "is_template", Bool(FALSE))

\* "Ensure each snippet has the new fields if not present": tags that is not
\* a list (or is absent: .get gives None) becomes [], the two flags are
\* added when absent; text and label are not touched.
SaveDict(d) ==
    LET t == IF IsList(DictGet(d, "tags", Null)) THEN d
             ELSE DictSet(d, "tags", List(<<>>))
    IN SetDefault(SetDefault(t, "is_markdown", Bool(FALSE)),
                  "is_template", Bool(FALSE))

\* json.dump of one value: a tuple is written as an array.
JsonValue(x) == IF x.k = "tuple" THEN List(x.v) ELSE x

\* json.dump raises TypeError on a value it cannot serialize.
Serializable(d) == \A key \in DOMAIN d : d[key].k # "object"

JsonDict(d) == [key \in DOMAIN d |-> JsonValue(d[key])]

\* What open(save_file, "w") and json.dump may do: succeed, fail to open
\* (the file is untouched), or fail while writing (the file is truncated).
IoOutcomes == {"ok", "open_fails", "write_fails"}

SaveResult(ok, msg, f) == [ret |-> "pair", ok |-> ok, msg |-> msg, file |-> f]

\* save_snippets(snippets_data) on store file f; io is what the file system
\* does.  snippet.get on an element that is no mapping raises before the
\* file is opened.
SaveSnippets(f, data, io) ==
    IF \E i \in 1..Len(data) : data[i].k # "dict" THEN
        SaveResult(FALSE, Msg("Error saving: {e}", 0), f)
    ELSE
        LET updated == [i \in 1..Len(data) |-> DictE(SaveDict(data[i].d))]
        IN IF io = "open_fails" THEN
               SaveResult(FALSE, Msg("Error saving: {e}", 0), f)
           ELSE IF io = "write_fails"
                   \/ \E i \in 1..Len(updated) : ~Serializable(updated[i].d) THEN
               SaveResult(FALSE, Msg("Error saving: {e}", 0), Garbage)
           ELSE
               SaveResult(TRUE, Msg("Saved {n} snippets", Len(updated)),
                          Array([i \in 1..Len(updated) |->
                                    DictE(JsonDict(updated[i].d))]))

(***************************************************************************)
(* bulk_update_snippets                                                    *)
(***************************************************************************)
\* A range check that forgets the lower bound.
ValidIndexNoLowerBound(idx, n) == idx < n

\* 0 <= idx < len(snippets)
ValidIndex(idx, n) == 0 <= idx /\ idx < n

\* The position (from 1) that snippets[idx] addresses: Python counts a
\* negative index from the end.
PyPos(idx, n) == IF idx >= 0 THEN idx + 1 ELSE n + idx + 1

\* for idx in snippet_ids: if 0 <= idx < len(snippets): update, count.
RECURSIVE UpdateLoop(_, _, _, _)
UpdateLoop(snippets, ids, patch, count) ==
    IF ids = <<>> THEN [list |-> snippets, count |-> count]
    ELSE LET idx == Head(ids)
             pos == PyPos(idx, Len(snippets))
         IN IF ValidIndex(idx, Len(snippets)) THEN
                UpdateLoop([snippets EXCEPT ![pos] =
                                DictE(DictUpdate(snippets[pos].d, patch))],
                           Tail(ids), patch, count + 1)
            ELSE UpdateLoop(snippets, Tail(ids), patch, count)

BulkResult(ok, msg, f) == [ret |-> "pair", ok |-> ok, msg |-> msg, file |-> f]

BulkUpdateSnippets(f, ids, patch, io) ==
    LET snippets == LoadSnippets(f).list
    IN IF snippets = <<>> THEN
           BulkResult(FALSE, Msg("No snippets to update", 0), f)
       ELSE LET u == UpdateLoop(snippets, ids, patch, 0)
            IN IF u.count > 0 THEN
                   LET s == SaveSnippets(f, u.list, io)
                   IN IF s.ok THEN
                          BulkResult(TRUE, Msg("Updated {n} snippets", u.count), s.file)
                      ELSE BulkResult(FALSE, Msg("Failed to save updates", 0), s.file)
               ELSE BulkResult(FALSE, Msg("No snippets were updated", 0), f)

(***************************************************************************)
(* bulk_delete_snippets                                                    *)
(***************************************************************************)
SetMax(S) == CHOOSE x \in S : \A y \in S : y <= x

RECURSIVE SortedDescending(_)
SortedDescending(S) ==
    IF S = {} THEN <<>>
    ELSE <<SetMax(S)>> \o SortedDescending(S \ {SetMax(S)})

Range(s) == {s[i] : i \in 1..Len(s)}

SetMin(S) == CHOOSE x \in S : \A y \in S : x <= y

RECURSIVE SortedAscending(_)
SortedAscending(S) ==
    IF S = {} THEN <<>>
    ELSE <<SetMin(S)>> \o SortedAscending(S \ {SetMin(S)})

\* The indices sorted without reverse=True.
IndicesAscending(ids) == SortedAscending(Range(ids))

\* sorted(set(snippet_ids), reverse=True)
IndicesToDelete(ids) == SortedDescending(Range(ids))

\* snippets.pop(idx)
Pop(snippets, idx) ==
    LET pos == PyPos(idx, Len(snippets))
    IN SubSeq(snippets, 1, pos - 1) \o SubSeq(snippets, pos + 1, Len(snippets))

\* for idx in indices_to_delete: if 0 <= idx < len(snippets): pop, count.
RECURSIVE DeleteLoop(_, _, _)
DeleteLoop(snippets, order, count) ==
    IF order = <<>> THEN [list |-> snippets, count |-> count]
    ELSE LET idx == Head(order)
         IN IF ValidIndex(idx, Len(snippets)) THEN
                DeleteLoop(Pop(snippets, idx), Tail(order), count + 1)
            ELSE DeleteLoop(snippets, Tail(order), count)

\* A bulk delete that saves what is left without looking at what it loaded.
BulkDeleteSavesAnyway(f, ids, io) ==
    LET u == DeleteLoop(LoadSnippets(f).list, IndicesToDelete(ids), 0)
        s == SaveSnippets(f, u.list, io)
    IN BulkResult(s.ok, Msg("Deleted {n} snippets", u.count), s.file)

BulkDeleteSnippets(f, ids, io) ==
    LET snippets == LoadSnippets(f).list
    IN IF snippets = <<>> THEN
           BulkResult(FALSE, Msg("No snippets to delete", 0), f)
       ELSE LET u == DeleteLoop(snippets, IndicesToDelete(ids), 0)
            IN IF u.count > 0 THEN
                   LET s == SaveSnippets(f, u.list, io)
                   IN IF s.ok THEN
                          BulkResult(TRUE, Msg("Deleted {n} snippets", u.count), s.file)
                      ELSE BulkResult(FALSE, Msg("Failed to save after deletion", 0), s.file)
               ELSE BulkResult(FALSE, Msg("No snippets were deleted", 0), f)

(***************************************************************************)
(* import_from_file                                                        *)
(***************************************************************************)
\* The file to import: its extension, what it holds (absent, unreadable,
\* garbage, scalar, array, or text) and its elements or its lines.
Source(ext, kind, items, lines) ==
    [ext |-> ext, k |-> kind, items |-> items, lines |-> lines]

NoSource == Source("", "absent", <<>>, <<>>)

\* The standardized snippet of a mapping: the five keys, each by
\* item.get(key, default); any other key is dropped.
ImportDict(d) ==
    [text |-> DictGet(d, "text", Str("")),
     label |-> DictGet(d, "label", Str("")),
     tags |-> DictGet(d, "tags", List(<<>>)),
     is_markdown |-> DictGet(d, "is_markdown", Bool(FALSE)),
     is_template |-> DictGet(d, "is_template", Bool(FALSE))]

ImportElement(e) ==
    IF e.k = "dict" THEN <<DictE(ImportDict(e.d))>>
    ELSE IF e.k = "str" THEN <<FromString(e.s)>>
    ELSE <<>>

RECURSIVE ImportLoop(_)
ImportLoop(items) ==
    IF items = <<>> THEN <<>>
    ELSE ImportElement(Head(items)) \o ImportLoop(Tail(items))

\* A line of a text file by its characters; a string given by its
\* characters.
Whitespace == {" ", "\t", "\n"}

Text(chars) == [k |-> "str", v |-> chars]

\* str.strip(): leading and trailing whitespace removed, the rest kept.
RECURSIVE LStrip(_)
LStrip(line) ==
    IF line # <<>> /\ Head(line) \in Whitespace THEN LStrip(Tail(line))
    ELSE line

RECURSIVE RStrip(_)
RStrip(line) ==
    IF line # <<>> /\ line[Len(line)] \in Whitespace
    THEN RStrip(SubSeq(line, 1, Len(line) - 1))
    ELSE line

\* A strip that leaves the line as it is.
StripNothing(line) == line

Strip(line) == RStrip(LStrip(line))

\* The snippet appended for a non-blank line.
FromLine(line) ==
    DictE([text |-> Text(Strip(line)), label |-> Str(""), tags |-> List(<<>>),
           is_markdown |-> Bool(FALSE), is_template |-> Bool(FALSE)])

\* for line in lines: if line.strip(): append the stripped line.
RECURSIVE ImportLines(_)
ImportLines(lines) ==
    IF lines = <<>> THEN <<>>
    ELSE (IF Strip(Head(lines)) # <<>> THEN <<FromLine(Head(lines))>>
          ELSE <<>>) \o ImportLines(Tail(lines))

ImportResult(ret, list, msg) == [ret |-> ret, list |-> list, msg |-> msg]

\* A .json file whose top-level value is no list falls out of the if with
\* no return statement: the function returns None.
ImportFromFile(src) ==
    IF src.k \in {"absent", "unreadable"} THEN
        ImportResult("pair", <<>>, Msg("Import error: {e}", 0))
    ELSE IF src.ext = "json" THEN
        IF src.k = "array" THEN
            LET standardized == ImportLoop(src.items)
            IN ImportResult("pair", standardized,
                   Msg("Imported {n} snippets from JSON", Len(standardized)))
        ELSE IF src.k = "scalar" THEN
            ImportResult("none", <<>>, Msg("", 0))
        ELSE ImportResult("pair", <<>>, Msg("Import error: {e}", 0))
    ELSE
        LET imported == ImportLines(src.lines)
        IN ImportResult("pair", imported,
               Msg("Imported {n} snippets from text file", Len(imported)))

(***************************************************************************)
(* get_all_tags, get_template_snippets                                     *)
(***************************************************************************)
\* The tag strings of the model in Python's sort order (by code point).
SortedTagUniverse ==
    <<"1", "2", "business", "credentials", "t", "t1", "t2", "template", "web">>

\* The characters of a string: set.update(str) adds them one by one.
Chars(s) ==
    CASE s = "t1" -> {"t", "1"}
      [] s = "t2" -> {"t", "2"}
      [] OTHER -> {s}

\* set.update(tags) raises TypeError when tags is not iterable.
Iterable(x) == x.k \in {"list", "tuple", "str"}

TagsOf(x) == IF x.k = "str" THEN Chars(x.v[1]) ELSE Range(x.v)

\* tags = snippet.get("tags", []); if tags: all_tags.update(tags)
UsedTags(snippets) ==
    UNION {TagsOf(DictGet(snippets[i].d, "tags", List(<<>>))) :
             i \in {j \in 1..Len(snippets) :
                        Truthy(DictGet(snippets[j].d, "tags", List(<<>>)))}}

\* Returns the bare sorted list (no message); raises when a truthy tags
\* value cannot be iterated.
GetAllTags(f) ==
    LET snippets == LoadSnippets(f).list
    IN IF \E i \in 1..Len(snippets) :
              LET t == DictGet(snippets[i].d, "tags", List(<<>>))
              IN Truthy(t) /\ ~Iterable(t)
       THEN [ret |-> "raise", tags |-> <<>>]
       ELSE [ret |-> "list",
             tags |-> SelectSeq(SortedTagUniverse,
                                LAMBDA t : t \in UsedTags(snippets))]

\* [s for s in snippets if s.get("is_template", False)]: a bare list.
GetTemplateSnippets(f) ==
    [ret |-> "list",
     list |-> SelectSeq(LoadSnippets(f).list,
                  LAMBDA e : Truthy(DictGet(e.d, "is_template", Bool(FALSE))))]

(***************************************************************************)
(* Inputs the model draws.                                                 *)
(***************************************************************************)
MaxFileLen == 2

MaxSaveLen == 2

MaxLen == 3

MaxIds == 2

SeqsUpTo(S, n) == UNION {[1..m -> S] : m \in 0..n}

\* Two canonical snippets, the second with an unrecognized key.
SnipA ==
    [text |-> Str("a"), label |-> Str(""), tags |-> List(<<>>),
     is_markdown |-> Bool(FALSE), is_template |-> Bool(FALSE)]

SnipB ==
    [text |-> Str("b"), label |-> Str("work"), tags |-> List(<<"t1", "t2">>),
     is_markdown |-> Bool(TRUE), is_template |-> Bool(TRUE),
     color |-> Str("red")]

\* A record of an older format: only its text.
LegacyC == [text |-> Str("c")]

\* A foreign record: all five keys, but tags is a string.
ForeignD ==
    [text |-> Str("d"), label |-> Str("x"), tags |-> Str("t1"),
     is_markdown |-> Bool(FALSE), is_template |-> Bool(TRUE)]

\* Mappings a caller may hand to save_snippets besides the canonical ones:
\* one lacking text, tags and the flags, one with a tuple under an unknown
\* key, one holding an object json cannot serialize.
PartialP == [label |-> Str("work")]

TupleR == DictSet(SnipA, "pos", Tuple(<<"1", "2">>))

ObjectQ == DictSet(SnipB, "created", Obj)

FileElems ==
    {DictE(SnipA), DictE(SnipB), DictE(LegacyC), DictE(ForeignD),
     StrE("s"), OtherE("5")}

SaveElems == {DictE(SnipA), DictE(SnipB), DictE(PartialP), DictE(TupleR),
              DictE(ObjectQ)}

InitFiles ==
    {Absent, Unreadable, Garbage, Scalar}
        \cup {Array(items) : items \in SeqsUpTo(FileElems, MaxFileLen)}

\* Lines as readlines() gives them: a word, a padded word, a word with an
\* inner space and no newline (a last line), and two blank lines.
Lines ==
    {<<"a", "\n">>, <<" ", "b", " ", "\n">>, <<"a", " ", "b">>,
     <<"\n">>, <<" ", "\t", "\n">>}

Sources ==
    {Source(ext, kind, <<>>, <<>>) :
        ext \in {"json", "txt"}, kind \in {"absent", "unreadable"}}
      \cup {Source("json", kind, <<>>, <<>>) : kind \in {"garbage", "scalar"}}
      \cup {Source("json", "array", items, <<>>) :
               items \in SeqsUpTo(FileElems, MaxFileLen)}
      \cup {Source(ext, "text", <<>>, lines) :
               ext \in {"txt", "md"}, lines \in SeqsUpTo(Lines, MaxFileLen)}

BulkElems == {DictE(SnipA), DictE(SnipB), DictE(ForeignD), OtherE("5")}

InitBulkFiles ==
    {Absent, Garbage, Scalar}
        \cup {Array(items) : items \in SeqsUpTo(BulkElems, MaxLen)}

IdLists == SeqsUpTo(-1..MaxLen, MaxIds)

Patches ==
    {[label |-> Str("home")],
     [is_markdown |-> Bool(TRUE), color |-> Str("blue")],
     [tags |-> Str("t2")],
     [created |-> Obj]}

(***************************************************************************)
(* The state machine: the store file and the last call with its result.    *)
(***************************************************************************)
\* The window: its snippet widgets in order, the category registry (the
\* keys of CATEGORY_COLORS in insertion order), the rows of the categories
\* list and its current row (-1 when none).  No window is open in the
\* specifications of the store layer.
\* What a widget holds besides the mapping get_snippet_data() returns:
\* is_masked, original_text, and whether its checkbox is ticked.
Behind(text) == [masked |-> FALSE, original |-> text, selected |-> FALSE]

\* The window: its widgets (snippets, and behind each its other state), the
\* categories tab, the auto-save checkbox (ticked at start), and how many
\* things the user has done so far.
Window(snippets, registry, rows, row) ==
    [snippets |-> snippets, registry |-> registry, rows |-> rows, row |-> row,
     behind |-> [i \in 1..Len(snippets) |-> Behind(snippets[i].d.text)],
     auto |-> TRUE, clicks |-> 0]

NoWindow == Window(<<>>, <<>>, <<>>, -1)

\* The file an export writes: absent, or a text held as a sequence of
\* pieces, "\n" ending each line.  No export is under way outside the
\* specification of the export.
NoTarget == [k |-> "absent", doc |-> <<>>]

TextFile(doc) == [k |-> "text", doc |-> doc]

\* A call of the persistence layer taken step by step: where it stands,
\* what it was asked, the list it holds in memory, how many snippets it
\* changed and what it returned.
Call(pc, kind, ids, patch, snap, count, ok) ==
    [pc |-> pc, kind |-> kind, ids |-> ids, patch |-> patch, snap |-> snap,
     count |-> count, ok |-> ok]

NoCall == Call("idle", "", <<>>, NoDict, <<>>, 0, FALSE)

\* Two calls A and B, the store they started from and the steps taken so
\* far.  No call is under way outside the specification of the steps.
NoCalls == [A |-> NoCall, B |-> NoCall, start |-> Absent, log |-> <<>>]

\* No password options.
NoOpts == [length |-> 0, upper |-> FALSE, digits |-> FALSE, special |-> FALSE]

Idle ==
    [op |-> "init", ret |-> "pair", ok |-> TRUE, msg |-> Msg("", 0),
     list |-> <<>>, tags |-> <<>>, data |-> <<>>, io |-> "ok",
     ids |-> <<>>, patch |-> NoDict, src |-> NoSource,
     text |-> <<>>, out |-> <<>>, opts |-> NoOpts, saves |-> 0]

Init == file \in InitFiles /\ last = Idle /\ win = NoWindow /\ target = NoTarget /\ calls = NoCalls

InitBulk == file \in InitBulkFiles /\ last = Idle /\ win = NoWindow /\ target = NoTarget /\ calls = NoCalls

\* The outcome of every call is a function of the store file and of the
\* call's arguments, never of the previous call.  Calls are therefore taken
\* where the caller has just (re)loaded its view, as the window does at
\* start-up and after each operation: this reaches every pair of a reachable
\* file and an argument.
Loaded == last.op = "load"

Load ==
    LET r == LoadSnippets(file)
    IN /\ target' = target /\ calls' = calls
       /\ file' = file
       /\ win' = win
       /\ last' = [Idle EXCEPT !.op = "load", !.ret = r.ret, !.list = r.list,
                               !.msg = r.msg]

Save ==
    /\ Loaded
    /\ \E data \in SeqsUpTo(SaveElems, MaxSaveLen), io \in IoOutcomes :
          LET r == SaveSnippets(file, data, io)
          IN /\ target' = target /\ calls' = calls
             /\ file' = r.file
             /\ win' = win
             /\ last' = [Idle EXCEPT !.op = "save", !.ret = r.ret, !.ok = r.ok,
                                     !.msg = r.msg, !.data = data, !.io = io]

\* An import that also writes what it read into the store.
ImportPersists ==
    /\ Loaded
    /\ \E src \in Sources :
          LET r == ImportFromFile(src)
          IN /\ target' = target /\ calls' = calls
             /\ file' = (IF r.ret = "pair" /\ r.list # <<>>
                         THEN Array(r.list) ELSE file)
             /\ win' = win
             /\ last' = [Idle EXCEPT !.op = "import", !.ret = r.ret,
                                     !.list = r.list, !.msg = r.msg,
                                     !.src = src]

Import ==
    /\ Loaded
    /\ \E src \in Sources :
          LET r == ImportFromFile(src)
          IN /\ target' = target /\ calls' = calls
             /\ file' = file
             /\ win' = win
             /\ last' = [Idle EXCEPT !.op = "import", !.ret = r.ret,
                                     !.list = r.list, !.msg = r.msg,
                                     !.src = src]

AllTags ==
    LET r == GetAllTags(file)
    IN /\ Loaded
       /\ target' = target /\ calls' = calls
       /\ file' = file
       /\ win' = win
       /\ last' = [Idle EXCEPT !.op = "get_all_tags", !.ret = r.ret,
                               !.tags = r.tags]

Templates ==
    LET r == GetTemplateSnippets(file)
    IN /\ Loaded
       /\ target' = target /\ calls' = calls
       /\ file' = file
       /\ win' = win
       /\ last' = [Idle EXCEPT !.op = "get_template_snippets", !.ret = r.ret,
                               !.list = r.list]

Next == Load \/ Save \/ Import \/ AllTags \/ Templates

Spec == Init /\ [][Next]_vars

\* SpecBulk: one bulk call on a store drawn by InitBulk.
FirstCall == last.op = "init"

BulkUpdate ==
    /\ FirstCall
    /\ \E ids \in IdLists, patch \in Patches :
          LET r == BulkUpdateSnippets(file, ids, patch, "ok")
          IN /\ target' = target /\ calls' = calls
             /\ file' = r.file
             /\ win' = win
             /\ last' = [Idle EXCEPT !.op = "bulk_update", !.ret = r.ret,
                                     !.ok = r.ok, !.msg = r.msg, !.ids = ids,
                                     !.patch = patch]

BulkDelete ==
    /\ FirstCall
    /\ \E ids \in IdLists :
          LET r == BulkDeleteSnippets(file, ids, "ok")
          IN /\ target' = target /\ calls' = calls
             /\ file' = r.file
             /\ win' = win
             /\ last' = [Idle EXCEPT !.op = "bulk_delete", !.ret = r.ret,
                                     !.ok = r.ok, !.msg = r.msg, !.ids = ids]

NextBulk == BulkUpdate \/ BulkDelete

SpecBulk == InitBulk /\ [][NextBulk]_vars

\* SpecStore: on a store drawn by InitBulk, one bulk call, or loads and
\* the two queries.
NextStore == Load \/ AllTags \/ Templates \/ BulkUpdate \/ BulkDelete

SpecStore == InitBulk /\ [][NextStore]_vars

(***************************************************************************)
(* The main window (ui/main_window.py): the snippet widgets, the category  *)
(* registry CATEGORY_COLORS and the categories tab.  A widget is held as   *)
(* the mapping its get_snippet_data() returns.                             *)
(***************************************************************************)
\* The keys of CATEGORY_COLORS in insertion order.
CategoryColors ==
    <<"WordPress Login", "Instagram Account", "Facebook Page",
      "Email Configuration", "Password", "default">>

\* del CATEGORY_COLORS[name]
DictRemove(registry, name) == SelectSeq(registry, LAMBDA n : n # name)

\* CATEGORY_COLORS[name] = color: a new key goes last, a known key keeps
\* its place.
DictAdd(registry, name) ==
    IF name \in Range(registry) THEN registry ELSE Append(registry, name)

\* refresh_categories_list puts "default" back when it is missing ...
EnsureDefault(registry) == DictAdd(registry, "default")

\* ... and lists "default" first, then every other key in order.
CategoryRows(registry) ==
    <<"default">> \o SelectSeq(registry, LAMBDA n : n # "default")

\* add_snippet(text, label, tags, is_markdown, is_template) for one loaded
\* item: the five fields by item.get; any other key is not kept.
WidgetOf(e) == DictE(ImportDict(e.d))

\* add_snippet() with no argument.
EmptyWidget == FromString("")

\* MainWindow.load_snippets: a widget per loaded item, or one empty widget
\* when nothing was loaded.
WindowLoad(f) ==
    LET saved == LoadSnippets(f).list
    IN IF saved # <<>> THEN [i \in 1..Len(saved) |-> WidgetOf(saved[i])]
       ELSE <<EmptyWidget>>

\* A relabelling that changes no widget.
RelabelNothing(snippets, f, i, old, new, io) ==
    [snippets |-> snippets, file |-> f]

\* for snippet in self.snippets: if snippet.get_label() == old:
\* snippet.set_label(new).  Each set_label changes the label field, whose
\* textChanged signal reaches on_snippet_changed, which saves all widgets.
RECURSIVE RelabelLoop(_, _, _, _, _, _)
RelabelLoop(snippets, f, i, old, new, io) ==
    IF i > Len(snippets) THEN [snippets |-> snippets, file |-> f]
    ELSE IF snippets[i].d.label = Str(old) THEN
        LET changed == [snippets EXCEPT
                           ![i] = DictE(DictSet(snippets[i].d, "label", Str(new)))]
        IN RelabelLoop(changed, SaveSnippets(f, changed, io).file,
                       i + 1, old, new, io)
    ELSE RelabelLoop(snippets, f, i + 1, old, new, io)

MaxWinLen == 2

\* Snippets of the store the window opens: no label, a label that is a
\* registered category, and a label that is not.
WinElems ==
    {DictE(SnipA),
     DictE([text |-> Str("Password: hunter2"), label |-> Str("Password"),
            tags |-> List(<<"t1">>), is_markdown |-> Bool(FALSE),
            is_template |-> Bool(FALSE)]),
     DictE(SnipB)}

InitWinFiles ==
    {Absent} \cup {Array(items) : items \in SeqsUpTo(WinElems, MaxWinLen)}

\* Names typed into the category editor (stripped); "" is refused.
CategoryNames == {"", "work"}

\* MainWindow.__init__: the categories tab is filled, then the store is
\* loaded; nothing is selected.
InitWindow ==
    /\ file \in InitWinFiles
    /\ last = Idle
    /\ win = Window(WindowLoad(file), CategoryColors,
                    CategoryRows(CategoryColors), -1)
    /\ target = NoTarget /\ calls = NoCalls

\* The registries the model reaches are kept few: a behaviour holds at most
\* one edit of the registry as configured, then at most one deletion.
AsConfigured == win.registry = CategoryColors

Deleted == last.op = "delete_category" /\ last.ok

\* on_category_selected: the user picks a row of the categories list.
SelectCategory ==
    /\ ~Deleted
    /\ \E row \in 0..(Len(win.rows) - 1) :
        /\ target' = target /\ calls' = calls
        /\ file' = file
        /\ win' = [win EXCEPT !.row = row]
        /\ last' = [Idle EXCEPT !.op = "select_category", !.ret = "none"]

\* delete_selected_category: nothing happens on row 0 ("default"), with no
\* row, or when the user answers No.  last.ok tells whether the category
\* was deleted, last.io what the final save met.
DeleteSelectedCategory ==
    \E confirm \in BOOLEAN :
        IF win.row > 0 /\ confirm THEN
            \E ioLoop \in IoOutcomes, io \in IoOutcomes :
                LET name == win.rows[win.row + 1]
                    r == RelabelLoop(win.snippets, file, 1, name, "default",
                                     ioLoop)
                    registry == EnsureDefault(DictRemove(win.registry, name))
                    s == SaveSnippets(r.file, r.snippets, io)
                IN /\ target' = target /\ calls' = calls
                   /\ file' = s.file
                   /\ win' = [win EXCEPT !.snippets = r.snippets,
                                          !.registry = registry,
                                          !.rows = CategoryRows(registry),
                                          !.row = -1]
                   /\ last' = [Idle EXCEPT !.op = "delete_category",
                                           !.ret = "none", !.ok = TRUE,
                                           !.io = io,
                                           !.msg = Msg("Category '{name}' deleted", 0)]
        ELSE
            /\ target' = target /\ calls' = calls
            /\ file' = file
            /\ win' = win
            /\ last' = [Idle EXCEPT !.op = "delete_category", !.ret = "none",
                                    !.ok = FALSE]

\* save_category: an empty name is refused; with a row selected and another
\* name typed the category is renamed and its snippets follow; otherwise
\* the name is added (or only its color changes).
SaveCategory ==
    /\ AsConfigured
    /\ \E name \in CategoryNames :
        IF name = "" THEN
            /\ target' = target /\ calls' = calls
            /\ file' = file
            /\ win' = win
            /\ last' = [Idle EXCEPT !.op = "save_category", !.ret = "none",
                                    !.ok = FALSE]
        ELSE
            \E ioLoop \in IoOutcomes, io \in IoOutcomes :
                LET old == IF win.row >= 0 THEN win.rows[win.row + 1] ELSE ""
                    rename == /\ old # ""
                              /\ old # name
                              /\ old \in Range(win.registry)
                    r == IF rename
                         THEN RelabelLoop(win.snippets, file, 1, old, name,
                                          ioLoop)
                         ELSE [snippets |-> win.snippets, file |-> file]
                    registry ==
                        EnsureDefault(
                            IF rename
                            THEN DictAdd(DictRemove(win.registry, old), name)
                            ELSE DictAdd(win.registry, name))
                    s == SaveSnippets(r.file, r.snippets, io)
                IN /\ target' = target /\ calls' = calls
                   /\ file' = s.file
                   /\ win' = [win EXCEPT !.snippets = r.snippets,
                                          !.registry = registry,
                                          !.rows = CategoryRows(registry),
                                          !.row = -1]
                   /\ last' = [Idle EXCEPT !.op = "save_category",
                                           !.ret = "none", !.ok = TRUE,
                                           !.io = io,
                                           !.msg = Msg("Category '{name}' saved", 0)]

NextWindow == SelectCategory \/ DeleteSelectedCategory \/ SaveCategory

SpecWindow == InitWindow /\ [][NextWindow]_vars

(***************************************************************************)
(* utils.py: mask_sensitive_data and generate_password.  A text is a       *)
(* sequence of tokens: a keyword of the vocabulary in some letter case, a  *)
(* separator, a whitespace character, or a word of other characters.       *)
(***************************************************************************)
\* password|pass|pwd|secret|token|key|auth|app pass under (?i): two of
\* them, in two casings.
Keywords == {"Password", "pwd"}

\* [:=]
Separators == {":", "="}

\* \w: keywords and other words are runs of word characters.
IsWord(tok) == tok \in Keywords \cup {"x"}

\* The replacement after \1.
Marker == <<"●●●●●●●●">>

\* \b before the keyword: the start of the text or a non-word character.
WordBoundaryBefore(text, i) == i = 1 \/ ~IsWord(text[i - 1])

\* \s*, greedy: the first position from i that holds no whitespace
\* (Len(text) + 1 when the whitespace runs to the end).  \s takes line
\* breaks too.
RECURSIVE SkipSpaces(_, _)
SkipSpaces(text, i) ==
    IF i <= Len(text) /\ text[i] \in Whitespace THEN SkipSpaces(text, i + 1)
    ELSE i

\* (.+)$ under re.MULTILINE: from i to the end of the line.
RECURSIVE LineEnd(_, _)
LineEnd(text, i) ==
    IF i < Len(text) /\ text[i + 1] # "\n" THEN LineEnd(text, i + 1) ELSE i

NoMatch == [ok |-> FALSE, value |-> 0, end |-> 0]

\* The match of PASSWORD_PATTERN that starts at position i, if any: the
\* keyword, \s*, a separator, \s*, then at least one character other than a
\* line break.  When the whitespace after the separator runs to the end of
\* the text, \s* gives characters back until (.+) finds one.
MatchAt(text, i) ==
    IF ~(text[i] \in Keywords /\ WordBoundaryBefore(text, i)) THEN NoMatch
    ELSE
        LET s == SkipSpaces(text, i + 1)
        IN IF ~(s <= Len(text) /\ text[s] \in Separators) THEN NoMatch
           ELSE
               LET r == SkipSpaces(text, s + 1)
                   back == {k \in (s + 1)..Len(text) : text[k] # "\n"}
               IN IF r <= Len(text) THEN
                      [ok |-> TRUE, value |-> r, end |-> LineEnd(text, r)]
                  ELSE IF back # {} THEN
                      [ok |-> TRUE, value |-> SetMax(back),
                       end |-> LineEnd(text, SetMax(back))]
                  ELSE NoMatch

\* PASSWORD_PATTERN.sub: matches are replaced from left to right, the scan
\* going on after each match.
RECURSIVE MaskFrom(_, _)
MaskFrom(text, i) ==
    IF i > Len(text) THEN <<>>
    ELSE LET m == MatchAt(text, i)
         IN IF m.ok
            THEN SubSeq(text, i, m.value - 1) \o Marker \o MaskFrom(text, m.end + 1)
            ELSE <<text[i]>> \o MaskFrom(text, i + 1)

MaskSensitiveData(text) == MaskFrom(text, 1)

\* PASSWORD_CHARS: the first and the last character of each class.
PasswordChars ==
    [lowercase |-> {"a", "z"}, uppercase |-> {"A", "Z"},
     digits |-> {"0", "9"}, special |-> {"!", "/"}]

\* A pool that holds every class whatever the options.
PoolOfAllClasses(opts) ==
    PasswordChars.lowercase \cup PasswordChars.uppercase
      \cup PasswordChars.digits \cup PasswordChars.special

\* chars = lowercase, += each enabled class.
Pool(opts) ==
    PasswordChars.lowercase
      \cup (IF opts.upper THEN PasswordChars.uppercase ELSE {})
      \cup (IF opts.digits THEN PasswordChars.digits ELSE {})
      \cup (IF opts.special THEN PasswordChars.special ELSE {})

\* ''.join(random.choice(chars) for _ in range(length)): any string of
\* that length over the pool (the empty string for a length below 1).
Passwords(opts) ==
    IF opts.length < 1 THEN {<<>>} ELSE [1..opts.length -> Pool(opts)]

MaxTextLen == 4

MaxPwLen == 3

MaskTokens == Keywords \cup Separators \cup {"x", " ", "\n"}

Texts == SeqsUpTo(MaskTokens, MaxTextLen)

PasswordOpts ==
    [length : 0..MaxPwLen, upper : BOOLEAN, digits : BOOLEAN,
     special : BOOLEAN]

\* The services are stateless: a text is drawn, then masked; a password is
\* generated from the options drawn.
InitUtil ==
    /\ file = Absent
    /\ win = NoWindow /\ target = NoTarget /\ calls = NoCalls
    /\ last \in {[Idle EXCEPT !.text = t] : t \in Texts}

Mask ==
    /\ last.op = "init"
    /\ target' = target /\ calls' = calls
    /\ file' = file
    /\ win' = win
    /\ last' = [last EXCEPT !.op = "mask", !.ret = "str",
                            !.out = MaskSensitiveData(last.text)]

GeneratePassword ==
    /\ last.op = "init"
    /\ last.text = <<>>
    /\ \E opts \in PasswordOpts : \E password \in Passwords(opts) :
          /\ target' = target /\ calls' = calls
          /\ file' = file
          /\ win' = win
          /\ last' = [last EXCEPT !.op = "generate_password", !.ret = "str",
                                  !.opts = opts, !.out = password]

NextUtil == Mask \/ GeneratePassword

SpecUtil == InitUtil /\ [][NextUtil]_vars

(***************************************************************************)
(* export_to_file.  The document is the sequence of the pieces written,    *)
(* "\n" ending each line.                                                  *)
(***************************************************************************)
\* A string value inside an f-string.
Show(x) == x.v[1]

\* Iterating a tags value: the items of a list, the characters of a string.
CharSeq(s) ==
    CASE s = "t1" -> <<"t", "1">>
      [] s = "t2" -> <<"t", "2">>
      [] OTHER -> <<s>>

Items(x) == IF x.k = "str" THEN CharSeq(x.v[1]) ELSE x.v

\* ', '.join(tags)
RECURSIVE JoinComma(_)
JoinComma(ts) ==
    IF ts = <<>> THEN <<>>
    ELSE IF Len(ts) = 1 THEN ts
    ELSE <<ts[1], ", ">> \o JoinComma(Tail(ts))

\* What is written for one snippet, and whether an exception ended it.
Block(doc, raised) == [doc |-> doc, raised |-> raised]

\* A text block that writes the markers before the label.
TxtBlockMarkersFirst(d) ==
    LET label == DictGet(d, "label", Str(""))
        text == DictGet(d, "text", Str(""))
        tags == DictGet(d, "tags", List(<<>>))
    IN Block((IF Truthy(DictGet(d, "is_template", Bool(FALSE)))
              THEN <<"[TEMPLATE]", "\n">> ELSE <<>>)
             \o (IF Truthy(DictGet(d, "is_markdown", Bool(FALSE)))
                 THEN <<"[MARKDOWN]", "\n">> ELSE <<>>)
             \o (IF Truthy(label) THEN <<"[", Show(label), "]", "\n">> ELSE <<>>)
             \o (IF Truthy(tags)
                 THEN <<"Tags: ">> \o JoinComma(Items(tags)) \o <<"\n">>
                 ELSE <<>>)
             \o <<Show(text), "\n", "\n">>, FALSE)

\* format_type == "txt": the label line, the tags line (join raises on a
\* value that is no list or string), the two markers, the text and an
\* empty line.
TxtBlock(d) ==
    LET label == DictGet(d, "label", Str(""))
        text == DictGet(d, "text", Str(""))
        tags == DictGet(d, "tags", List(<<>>))
        head == IF Truthy(label) THEN <<"[", Show(label), "]", "\n">> ELSE <<>>
    IN IF Truthy(tags) /\ ~Iterable(tags) THEN Block(head, TRUE)
       ELSE Block(head
                  \o (IF Truthy(tags)
                      THEN <<"Tags: ">> \o JoinComma(Items(tags)) \o <<"\n">>
                      ELSE <<>>)
                  \o (IF Truthy(DictGet(d, "is_template", Bool(FALSE)))
                      THEN <<"[TEMPLATE]", "\n">> ELSE <<>>)
                  \o (IF Truthy(DictGet(d, "is_markdown", Bool(FALSE)))
                      THEN <<"[MARKDOWN]", "\n">> ELSE <<>>)
                  \o <<Show(text), "\n", "\n">>, FALSE)

\* The line of three backquotes that opens and closes a code block.
Fence == "[three backquotes]"

\* A section numbered one less than its place in the list.
MdBlockFromZero(d, i) ==
    LET label == DictGet(d, "label", Str(""))
        text == DictGet(d, "text", Str(""))
    IN Block(<<"## ", ToString(i - 1), ". ", Show(label), "\n", "\n",
               Fence, "\n", Show(text), "\n", Fence, "\n", "\n">>, FALSE)

\* format_type == "md": the numbered heading, the tags, the template and
\* markdown notes, then the text as it is or inside a code fence.
MdBlock(d, i) ==
    LET label == DictGet(d, "label", Str(""))
        text == DictGet(d, "text", Str(""))
        tags == DictGet(d, "tags", List(<<>>))
        head == <<"## ", ToString(i), ". ", Show(label), "\n", "\n">>
    IN IF Truthy(tags) /\ ~Iterable(tags) THEN Block(head, TRUE)
       ELSE Block(head
                  \o (IF Truthy(tags)
                      THEN <<"**Tags**: ">> \o JoinComma(Items(tags))
                             \o <<"\n", "\n">>
                      ELSE <<>>)
                  \o (IF Truthy(DictGet(d, "is_template", Bool(FALSE)))
                      THEN <<"**Template**", "\n", "\n">> ELSE <<>>)
                  \o (IF Truthy(DictGet(d, "is_markdown", Bool(FALSE)))
                      THEN <<"**Markdown Content**", "\n", "\n",
                             Show(text), "\n", "\n">>
                      ELSE <<Fence, "\n", Show(text), "\n", Fence, "\n", "\n">>),
                  FALSE)

\* format_type == "html": the div with its classes, the numbered label,
\* the tag badges, then the text as an attribute (markdown; the texts here
\* hold no double quote to replace) or as content.
HtmlBlock(d, i) ==
    LET label == DictGet(d, "label", Str(""))
        text == DictGet(d, "text", Str(""))
        tags == DictGet(d, "tags", List(<<>>))
        md == Truthy(DictGet(d, "is_markdown", Bool(FALSE)))
        tpl == Truthy(DictGet(d, "is_template", Bool(FALSE)))
        head == <<"<div class=\"snippet">>
                  \o (IF md THEN <<" markdown">> ELSE <<>>)
                  \o (IF tpl THEN <<" template">> ELSE <<>>)
                  \o <<"\">", "\n", "<div class=\"label\">#", ToString(i), ": ",
                       Show(label), "</div>", "\n">>
        badges == [j \in 1..(3 * Len(Items(tags))) |->
                      CASE j % 3 = 1 -> "<span class=\"badge\">"
                        [] j % 3 = 2 -> Items(tags)[(j + 1) \div 3]
                        [] OTHER -> "</span>"]
    IN IF Truthy(tags) /\ ~Iterable(tags)
       THEN Block(head \o <<"<div class=\"tags\">Tags: ">>, TRUE)
       ELSE Block(head
                  \o (IF Truthy(tags)
                      THEN <<"<div class=\"tags\">Tags: ">> \o badges
                             \o <<"</div>", "\n">>
                      ELSE <<>>)
                  \o (IF md
                      THEN <<"<div class=\"text markdown-content\" data-markdown=\"",
                             Show(text), "\"></div>", "\n">>
                      ELSE <<"<div class=\"text\">", Show(text), "</div>", "\n">>)
                  \o <<"</div>", "\n">>, FALSE)

\* What comes before and after the snippets; {now} is the time of export,
\* {marked script}, {style rules} and {render script} the fixed lines of the
\* page that load the renderer, style it and call it.
Header(fmt) ==
    CASE fmt = "md" -> <<"# Exported Snippets", "\n", "\n",
                         "Exported on ", "{now}", "\n", "\n">>
      [] fmt = "html" -> <<"<!DOCTYPE html>", "\n", "<html>", "\n", "<head>", "\n",
                           "<title>Exported Snippets</title>", "\n",
                           "{marked script}", "\n",
                           "<style>", "\n", "{style rules}", "\n",
                           "</style>", "\n", "</head>", "\n", "<body>", "\n",
                           "<h1>Exported Snippets</h1>", "\n",
                           "<p>Exported on ", "{now}", "</p>", "\n">>
      [] OTHER -> <<>>

Footer(fmt) ==
    IF fmt = "html"
    THEN <<"\n", "<script>", "\n", "{render script}", "\n", "</script>", "\n",
           "</body>", "\n", "</html>">>
    ELSE <<>>

BlockOf(d, i, fmt) ==
    CASE fmt = "txt" -> TxtBlock(d)
      [] fmt = "md" -> MdBlock(d, i)
      [] fmt = "html" -> HtmlBlock(d, i)

\* for snippet in snippets: snippet.get raises on an element that is no
\* mapping; what was written before an exception stays in the file.
RECURSIVE WriteBlocks(_, _, _, _)
WriteBlocks(snippets, i, fmt, doc) ==
    IF i > Len(snippets) THEN Block(doc \o Footer(fmt), FALSE)
    ELSE IF snippets[i].k # "dict" THEN Block(doc, TRUE)
    ELSE LET b == BlockOf(snippets[i].d, i, fmt)
         IN IF b.raised THEN Block(doc \o b.doc, TRUE)
            ELSE WriteBlocks(snippets, i + 1, fmt, doc \o b.doc)

\* Any other format_type takes no branch: nothing is written.
WriteDoc(snippets, fmt) ==
    IF fmt \in {"txt", "md", "html"}
    THEN WriteBlocks(snippets, 1, fmt, Header(fmt))
    ELSE Block(<<>>, FALSE)

\* f"Exported {len(snippets)} snippets to {format_type.upper()} file"
ExportedFmt(fmt) ==
    CASE fmt = "txt" -> "Exported {n} snippets to TXT file"
      [] fmt = "md" -> "Exported {n} snippets to MD file"
      [] fmt = "html" -> "Exported {n} snippets to HTML file"
      [] fmt = "csv" -> "Exported {n} snippets to CSV file"

ExportResult(ok, msg, t) == [ret |-> "pair", ok |-> ok, msg |-> msg, target |-> t]

\* export_to_file(snippets, file_path, format_type) on the target t.
\* open(file_path, "w") fails and leaves t, or empties it; a failing write
\* leaves the first cut pieces of the document.
ExportToFile(t, snippets, fmt, io, cut) ==
    IF io = "open_fails" THEN
        ExportResult(FALSE, Msg("Export error: {e}", 0), t)
    ELSE
        LET w == WriteDoc(snippets, fmt)
        IN IF io = "write_fails" THEN
               ExportResult(FALSE, Msg("Export error: {e}", 0),
                            TextFile(SubSeq(w.doc, 1, cut)))
           ELSE IF w.raised THEN
               ExportResult(FALSE, Msg("Export error: {e}", 0), TextFile(w.doc))
           ELSE
               ExportResult(TRUE, Msg(ExportedFmt(fmt), Len(snippets)),
                            TextFile(w.doc))

MaxExportLen == 2

\* A mapping whose tags is a number.
NumTagsE == [text |-> Str("e"), label |-> Str("y"), tags |-> Num("5")]

\* Snippets to export: the two canonical ones, one without label, tags and
\* flags set, two foreign ones whose tags is a string or a number, and a
\* number.
ExportElems ==
    {DictE(SnipA), DictE(SnipB), DictE(LegacyC), DictE(ForeignD),
     DictE(NumTagsE), OtherE("5")}

Formats == {"txt", "md", "html", "csv"}

Targets == {NoTarget, TextFile(<<"old", "\n">>)}

InitExport ==
    /\ file = Absent
    /\ win = NoWindow
    /\ last = Idle
    /\ target \in Targets /\ calls = NoCalls

\* One export per behaviour: its outcome depends on the arguments and on
\* the target only.
Export ==
    /\ last.op = "init"
    /\ \E snippets \in SeqsUpTo(ExportElems, MaxExportLen), fmt \in Formats,
          io \in IoOutcomes :
          \E cut \in IF io = "write_fails"
                     THEN 0..Len(WriteDoc(snippets, fmt).doc) ELSE {0} :
              LET r == ExportToFile(target, snippets, fmt, io, cut)
              IN /\ target' = r.target /\ calls' = calls
                 /\ file' = file
                 /\ win' = win
                 /\ last' = [Idle EXCEPT !.op = "export", !.ret = r.ret,
                                         !.ok = r.ok, !.msg = r.msg,
                                         !.data = snippets, !.io = io,
                                         !.text = <<fmt>>]

NextExport == Export

SpecExport == InitExport /\ [][NextExport]_vars

(***************************************************************************)
(* The snippets tab of the main window: the widgets, what the user does    *)
(* with them, and the saves that follows.  win.snippets[i] is what widget  *)
(* i gives as get_snippet_data(): its text is what the text field shows.   *)
(***************************************************************************)
\* MainWindow.save_snippets: get_snippet_data() of every widget, saved.
WindowSave(f, w, io) == SaveSnippets(f, w.snippets, io)

\* add_snippet(text, label): a widget with no tags and no flags.
PlainWidget(text, label) ==
    DictE([text |-> text, label |-> label, tags |-> List(<<>>),
           is_markdown |-> Bool(FALSE), is_template |-> Bool(FALSE)])

\* self.snippets.append(snippet)
AddWidget(w, e) ==
    [w EXCEPT !.snippets = Append(@, e),
              !.behind = Append(@, Behind(e.d.text))]

RemoveAt(seq, i) == SubSeq(seq, 1, i - 1) \o SubSeq(seq, i + 1, Len(seq))

\* self.snippets.remove(snippet)
RemoveWidget(w, i) ==
    [w EXCEPT !.snippets = RemoveAt(@, i), !.behind = RemoveAt(@, i)]

\* The widgets replaced by new ones for the items given.
Replaced(w, items) ==
    [w EXCEPT !.snippets = items,
              !.behind = [i \in 1..Len(items) |-> Behind(items[i].d.text)]]

\* toggle_sensitive_data: masking keeps the shown text as original_text and
\* shows the masked text; unmasking shows original_text again.  The signals
\* of the text field are blocked: nothing is saved.
ToggleSensitiveData(w, i) ==
    IF w.behind[i].masked THEN
        [w EXCEPT !.snippets[i] = DictE(DictSet(@.d, "text",
                                                w.behind[i].original)),
                  !.behind[i].masked = FALSE]
    ELSE
        LET shown == w.snippets[i].d.text
        IN [w EXCEPT !.snippets[i] =
                         DictE(DictSet(@.d, "text",
                                       Text(MaskSensitiveData(shown.v)))),
                     !.behind[i] = [@ EXCEPT !.original = shown,
                                             !.masked = TRUE]]

\* tag and tag not in self.tags
AddsTag(w, i, t) == t # "" /\ t \notin Range(w.snippets[i].d.tags.v)

\* A widget that appends the tag whether or not it holds it.
WidgetAppendsTag(w, i, t) ==
    [w EXCEPT !.snippets[i] =
                  DictE(DictSet(@.d, "tags", List(Append(@.d.tags.v, t))))]

\* SnippetWidget.add_tag: self.tags.append(tag) when the tag is not empty
\* and not yet there.
WidgetAddTag(w, i, t) ==
    IF AddsTag(w, i, t)
    THEN [w EXCEPT !.snippets[i] =
                       DictE(DictSet(@.d, "tags", List(Append(@.d.tags.v, t))))]
    ELSE w

\* content_changed and then tag_added each reach a handler of the window
\* that saves every widget.
SaveTwice(f, w, io) == WindowSave(WindowSave(f, w, io).file, w, io).file

\* get_selected_snippet_indices: from 0, ascending.
SelectedIndices(w) ==
    SelectSeq([i \in 1..Len(w.snippets) |-> i - 1],
              LAMBDA idx : w.behind[idx + 1].selected)

\* tag not in tags, on a list and on a string (a substring test).
TagIn(t, tags) ==
    IF tags.k = "str" THEN t = tags.v[1] \/ t \in Chars(tags.v[1])
    ELSE t \in Range(tags.v)

\* add_tag_to_selected, its loop over the loaded snippets: the tag is
\* appended to the tags of each selected index below len(snippets).
TagLoaded(snippets, ids, t) ==
    [k \in 1..Len(snippets) |->
        LET tags == DictGet(snippets[k].d, "tags", List(<<>>))
        IN IF (k - 1) \in Range(ids) /\ ~TagIn(t, tags)
           THEN DictE(DictSet(snippets[k].d, "tags", List(Append(tags.v, t))))
           ELSE snippets[k]]

\* tags.append on a tags value that is a string raises.
TagLoadedRaises(snippets, ids, t) ==
    \E k \in 1..Len(snippets) :
        LET tags == DictGet(snippets[k].d, "tags", List(<<>>))
        IN (k - 1) \in Range(ids) /\ ~TagIn(t, tags) /\ ~IsList(tags)

\* for i in selected_indices: self.snippets[i].add_tag(tag); every widget
\* that takes the tag makes the window save twice.
RECURSIVE TagWidgets(_, _, _, _, _, _)
TagWidgets(w, f, ids, t, io, saves) ==
    IF ids = <<>> THEN [win |-> w, file |-> f, saves |-> saves]
    ELSE LET i == Head(ids) + 1
         IN IF i <= Len(w.snippets) /\ AddsTag(w, i, t) THEN
                LET added == WidgetAddTag(w, i, t)
                IN TagWidgets(added, SaveTwice(f, added, io), Tail(ids), t, io,
                              saves + 2)
            ELSE TagWidgets(w, f, Tail(ids), t, io, saves)

MaxTabLen == 2

MaxWidgets == 3

MaxClicks == 3

\* A snippet holding a credential.
Secret ==
    [text |-> Text(<<"Password", "=", "x">>), label |-> Str(""),
     tags |-> List(<<"t1">>), is_markdown |-> Bool(FALSE),
     is_template |-> Bool(FALSE)]

TabElems == {DictE(Secret), DictE(SnipB)}

\* The store the window opens: none, one that does not load, or an array.
InitTabFiles ==
    {Absent, Garbage, Scalar}
        \cup {Array(items) : items \in SeqsUpTo(TabElems, MaxTabLen)}

\* What the user types: a text, a label, a tag (maybe none).
TypedTexts == {Str("c")}

TypedLabels == {"work"}

TypedTags == {"", "t1", "t2"}

\* Files the user imports: a JSON array whose snippets carry tags and
\* flags, a text file, a JSON file holding no array, and a missing file.
TabSources ==
    {Source("json", "array", <<DictE(SnipB), DictE(SnipA)>>, <<>>),
     Source("txt", "text", <<>>, << <<"a", "\n">> >>),
     Source("json", "scalar", <<>>, <<>>),
     Source("json", "absent", <<>>, <<>>)}

\* MainWindow.__init__: load_snippets fills the widgets.
InitTab ==
    /\ file \in InitTabFiles
    /\ last = Idle
    /\ win = Window(WindowLoad(file), CategoryColors,
                    CategoryRows(CategoryColors), -1)
    /\ target = NoTarget /\ calls = NoCalls

\* The window is open and the user has not done MaxClicks things yet.
CanClick == last.op # "close" /\ win.clicks < MaxClicks

Clicked(w) == [w EXCEPT !.clicks = @ + 1]

\* What a handler leaves in last: its name, whether it went through, how
\* many saves it made, and the widgets' data when it began.
Did(op, ok, saves) ==
    [Idle EXCEPT !.op = op, !.ret = "none", !.ok = ok, !.saves = saves,
                 !.data = win.snippets]

\* The Add Snippet button: add_snippet() saves nothing.
AddSnippet ==
    /\ CanClick
    /\ Len(win.snippets) < MaxWidgets
    /\ win' = Clicked(AddWidget(win, EmptyWidget))
    /\ file' = file
    /\ target' = target /\ calls' = calls
    /\ last' = Did("add_snippet", TRUE, 0)

\* The Use Template button of a template widget: use_template adds a
\* snippet holding the text shown and saves nothing.
UseTemplate ==
    /\ CanClick
    /\ Len(win.snippets) < MaxWidgets
    /\ \E i \in 1..Len(win.snippets) :
        /\ win.snippets[i].d.is_template = Bool(TRUE)
        /\ win' = Clicked(AddWidget(win,
                       PlainWidget(win.snippets[i].d.text, Str("From Template"))))
        /\ file' = file
        /\ target' = target /\ calls' = calls
        /\ last' = Did("use_template", TRUE, 0)

\* The delete button of a widget: delete_snippet saves when auto-save is
\* ticked.
DeleteSnippet ==
    /\ CanClick
    /\ \E i \in 1..Len(win.snippets), io \in IoOutcomes :
        LET w == RemoveWidget(win, i)
        IN /\ win' = Clicked(w)
           /\ file' = (IF win.auto THEN WindowSave(file, w, io).file ELSE file)
           /\ target' = target /\ calls' = calls
           /\ last' = [Did("delete_snippet", TRUE, IF win.auto THEN 1 ELSE 0)
                         EXCEPT !.io = io]

\* The auto-save checkbox of the settings tab.
ToggleAutoSave ==
    /\ CanClick
    /\ win' = Clicked([win EXCEPT !.auto = ~@])
    /\ file' = file
    /\ target' = target /\ calls' = calls
    /\ last' = Did("toggle_auto_save", TRUE, 0)

\* The user replaces the text of a widget: on_text_changed takes what is
\* shown as text and as original_text, and the window saves.
EditText ==
    /\ CanClick
    /\ \E i \in 1..Len(win.snippets), t \in TypedTexts, io \in IoOutcomes :
        LET w == [win EXCEPT !.snippets[i] = DictE(DictSet(@.d, "text", t)),
                             !.behind[i].original = t]
        IN /\ win.snippets[i].d.text # t
           /\ win' = Clicked(w)
           /\ file' = WindowSave(file, w, io).file
           /\ target' = target /\ calls' = calls
           /\ last' = [Did("edit_text", TRUE, 1) EXCEPT !.io = io]

\* The user changes the label of a widget: on_label_changed, and the
\* window saves.
EditLabel ==
    /\ CanClick
    /\ \E i \in 1..Len(win.snippets), l \in TypedLabels, io \in IoOutcomes :
        LET w == [win EXCEPT !.snippets[i] = DictE(DictSet(@.d, "label", Str(l)))]
        IN /\ win.snippets[i].d.label # Str(l)
           /\ win' = Clicked(w)
           /\ file' = WindowSave(file, w, io).file
           /\ target' = target /\ calls' = calls
           /\ last' = [Did("edit_label", TRUE, 1) EXCEPT !.io = io]

\* The tag menu of a widget: add_tag(t); last.ids names the widget.
AddTag ==
    /\ CanClick
    /\ \E i \in 1..Len(win.snippets), t \in TypedTags, io \in IoOutcomes :
        LET w == WidgetAddTag(win, i, t)
            adds == AddsTag(win, i, t)
        IN /\ win' = Clicked(w)
           /\ file' = (IF adds THEN SaveTwice(file, w, io) ELSE file)
           /\ target' = target /\ calls' = calls
           /\ last' = [Did("add_tag", adds, IF adds THEN 2 ELSE 0)
                         EXCEPT !.io = io, !.ids = <<i - 1>>, !.text = <<t>>]

\* The mask button of a widget.
ToggleMask ==
    /\ CanClick
    /\ \E i \in 1..Len(win.snippets) :
        /\ win' = Clicked(ToggleSensitiveData(win, i))
        /\ file' = file
        /\ target' = target /\ calls' = calls
        /\ last' = [Did("toggle_mask", TRUE, 0) EXCEPT !.ids = <<i - 1>>]

\* The checkbox of a widget in selection mode.
ToggleSelected ==
    /\ CanClick
    /\ \E i \in 1..Len(win.snippets) :
        /\ win' = Clicked([win EXCEPT !.behind[i].selected = ~@])
        /\ file' = file
        /\ target' = target /\ calls' = calls
        /\ last' = Did("select", TRUE, 0)

\* delete_selected_snippets: with a selection and the user's Yes, the
\* indices go to bulk_delete_snippets; on success selection mode is left
\* and the widgets are loaded again from the store.
DeleteSelectedSnippets ==
    /\ CanClick
    /\ \E confirm \in BOOLEAN, io \in IoOutcomes :
        LET ids == SelectedIndices(win)
            r == BulkDeleteSnippets(file, ids, io)
        IN IF ids # <<>> /\ confirm THEN
               /\ win' = Clicked(IF r.ok THEN Replaced(win, WindowLoad(r.file))
                                 ELSE win)
               /\ file' = r.file
               /\ target' = target /\ calls' = calls
               /\ last' = [Did("delete_selected", r.ok, 0)
                             EXCEPT !.io = io, !.ids = ids, !.msg = r.msg]
           ELSE
               /\ win' = Clicked(win)
               /\ file' = file
               /\ target' = target /\ calls' = calls
               /\ last' = [Did("delete_selected", FALSE, 0) EXCEPT !.ids = ids]

\* add_tag_to_selected: with a selection and a tag typed, the store is
\* loaded, the tag added to the selected indices and the list saved; on
\* success each selected widget is given the tag.
AddTagToSelected ==
    /\ CanClick
    /\ \E t \in TypedTags, io \in IoOutcomes :
        LET ids == SelectedIndices(win)
            snippets == LoadSnippets(file).list
        IN IF ids = <<>> \/ t = "" \/ TagLoadedRaises(snippets, ids, t) THEN
               /\ win' = Clicked(win)
               /\ file' = file
               /\ target' = target /\ calls' = calls
               /\ last' = [Did("add_tag_to_selected", FALSE, 0)
                             EXCEPT !.ids = ids, !.text = <<t>>]
           ELSE
               LET s == SaveSnippets(file, TagLoaded(snippets, ids, t), io)
                   r == IF s.ok THEN TagWidgets(win, s.file, ids, t, io, 1)
                        ELSE [win |-> win, file |-> s.file, saves |-> 1]
               IN /\ win' = Clicked(r.win)
                  /\ file' = r.file
                  /\ target' = target /\ calls' = calls
                  /\ last' = [Did("add_tag_to_selected", s.ok, r.saves)
                                EXCEPT !.io = io, !.ids = ids, !.text = <<t>>]

\* import_snippets: a result that is no pair cannot be unpacked and ends
\* the handler; imported snippets replace the widgets, each added again
\* by add_snippet(text, label), and the window saves.
ImportSnippets ==
    /\ CanClick
    /\ \E src \in TabSources, io \in IoOutcomes :
        LET r == ImportFromFile(src)
            items == [i \in 1..Len(r.list) |->
                         PlainWidget(DictGet(r.list[i].d, "text", Str("")),
                                     DictGet(r.list[i].d, "label", Str("")))]
            w == Replaced(win, items)
        IN IF r.ret = "pair" /\ r.list # <<>> THEN
               /\ win' = Clicked(w)
               /\ file' = WindowSave(file, w, io).file
               /\ target' = target /\ calls' = calls
               /\ last' = [Did("import_snippets", TRUE, 1)
                             EXCEPT !.io = io, !.src = src, !.list = r.list]
           ELSE
               /\ win' = Clicked(win)
               /\ file' = file
               /\ target' = target /\ calls' = calls
               /\ last' = [Did("import_snippets", FALSE, 0) EXCEPT !.src = src]

\* closeEvent: the window saves and closes.
Close ==
    /\ last.op # "close"
    /\ \E io \in IoOutcomes :
        /\ win' = win
        /\ file' = WindowSave(file, win, io).file
        /\ target' = target /\ calls' = calls
        /\ last' = [Did("close", TRUE, 1) EXCEPT !.io = io]

NextTab ==
    \/ AddSnippet \/ UseTemplate \/ DeleteSnippet \/ ToggleAutoSave
    \/ EditText \/ EditLabel \/ AddTag \/ ToggleMask \/ ToggleSelected
    \/ DeleteSelectedSnippets \/ AddTagToSelected \/ ImportSnippets \/ Close

SpecTab == InitTab /\ [][NextTab]_vars

\* SpecTags: the same window, the user only adding snippets, ticking
\* checkboxes and adding tags.
NextTags == AddSnippet \/ ToggleSelected \/ AddTag \/ AddTagToSelected

SpecTags == InitTab /\ [][NextTags]_vars

(***************************************************************************)
(* Two calls on one store file, step by step.  A bulk operation loads the  *)
(* store, changes the list it holds and saves it; a window loads the store *)
(* when it opens, an edit changes one widget and the autosave writes all   *)
(* widgets.  Between the steps of one call the other call may take steps.  *)
(***************************************************************************)
\* A second look at the store when the change is made.
HeldReloaded(c, f) == LoadSnippets(f).list

\* The list a call changes: the one it loaded.
Held(c, f) == c.snap

\* snippets, _ = self.load_snippets(); if not snippets: return False, ...
\* (a window shows one empty snippet instead).
LoadStep(c, f) ==
    IF c.kind = "edit" THEN [c EXCEPT !.pc = "loaded", !.snap = WindowLoad(f)]
    ELSE LET snippets == LoadSnippets(f).list
         IN IF snippets = <<>> THEN [c EXCEPT !.pc = "done", !.ok = FALSE]
            ELSE [c EXCEPT !.pc = "loaded", !.snap = snippets]

\* The loop of the bulk operation, or the label typed into widget ids[1];
\* a bulk operation that changed nothing returns failure without saving.
MutateStep(c, f) ==
    LET held == Held(c, f)
        u == CASE c.kind = "bulk_update" -> UpdateLoop(held, c.ids, c.patch, 0)
               [] c.kind = "bulk_delete" ->
                      DeleteLoop(held, IndicesToDelete(c.ids), 0)
               [] OTHER ->
                      LET i == c.ids[1] + 1
                      IN IF i <= Len(held)
                         THEN [list |-> [held EXCEPT ![i] =
                                            DictE(DictUpdate(held[i].d, c.patch))],
                               count |-> 1]
                         ELSE [list |-> held, count |-> 0]
    IN IF u.count > 0
       THEN [c EXCEPT !.pc = "mutated", !.snap = u.list, !.count = u.count]
       ELSE [c EXCEPT !.pc = "done", !.ok = FALSE]

\* self.save_snippets(snippets): the call returns what the save returned.
SaveStep(c, f, io) ==
    LET r == SaveSnippets(f, c.snap, io)
    IN [call |-> [c EXCEPT !.pc = "done", !.ok = r.ok], file |-> r.file]

MaxRaceLen == 2

RaceFiles == {Array(items) : items \in SeqsUpTo({DictE(SnipA), DictE(SnipB)},
                                               MaxRaceLen)}

\* What a call is asked: a bulk update of the first or of the second
\* snippet, a bulk delete of the first, a label typed into the first.
RaceCalls ==
    {Call("idle", "bulk_update", <<0>>, [label |-> Str("home")], <<>>, 0, FALSE),
     Call("idle", "bulk_update", <<1>>, [is_markdown |-> Bool(TRUE)], <<>>, 0,
          FALSE),
     Call("idle", "bulk_delete", <<0>>, NoDict, <<>>, 0, FALSE),
     Call("idle", "edit", <<0>>, [label |-> Str("work")], <<>>, 0, FALSE)}

InitRace ==
    /\ file \in RaceFiles
    /\ last = Idle
    /\ win = NoWindow
    /\ target = NoTarget
    /\ \E a \in RaceCalls, b \in RaceCalls :
           calls = [A |-> a, B |-> b, start |-> file, log |-> <<>>]

Logged(p, step) == Append(calls.log, <<p, step>>)

CallLoads ==
    \E p \in {"A", "B"} :
        /\ calls[p].pc = "idle"
        /\ calls' = [calls EXCEPT ![p] = LoadStep(calls[p], file),
                                  !.log = Logged(p, "load")]
        /\ UNCHANGED <<file, last, win, target>>

CallMutates ==
    \E p \in {"A", "B"} :
        /\ calls[p].pc = "loaded"
        /\ calls' = [calls EXCEPT ![p] = MutateStep(calls[p], file),
                                  !.log = Logged(p, "mutate")]
        /\ UNCHANGED <<file, last, win, target>>

CallSaves ==
    \E p \in {"A", "B"}, io \in IoOutcomes :
        LET r == SaveStep(calls[p], file, io)
        IN /\ calls[p].pc = "mutated"
           /\ calls' = [calls EXCEPT ![p] = r.call, !.log = Logged(p, "save")]
           /\ file' = r.file
           /\ UNCHANGED <<last, win, target>>

NextRace == CallLoads \/ CallMutates \/ CallSaves

SpecRace == InitRace /\ [][NextRace]_vars

(***************************************************************************)
(* Properties.                                                             *)
(***************************************************************************)
CanonicalKeys == {"text", "label", "tags", "is_markdown", "is_template"}

JsonKinds == {"str", "bool", "int", "null", "list"}

\* The five canonical fields are present with the stated types.
TypedSnippet(d) ==
    /\ CanonicalKeys \subseteq DOMAIN d
    /\ d["text"].k = "str"
    /\ d["label"].k = "str"
    /\ d["tags"].k = "list"
    /\ d["is_markdown"].k = "bool"
    /\ d["is_template"].k = "bool"

\* A canonical snippet: typed, and whatever else it carries is a JSON value.
Canonical(e) ==
    /\ e.k = "dict"
    /\ TypedSnippet(e.d)
    /\ \A key \in DOMAIN e.d : e.d[key].k \in JsonKinds

CanonicalList(data) == \A i \in 1..Len(data) : Canonical(data[i])

\* C1: round trip.  save_snippets(S) of a list S of canonical snippets
\* (the empty list included) reports success, barring a file-system failure,
\* and the load_snippets() that immediately follows returns a pair whose
\* list equals S, element by element and in order, all five fields present.
C1_RoundTrip ==
    [][ (last.op = "save" /\ last.io = "ok" /\ CanonicalList(last.data))
          => /\ last.ok
             /\ last.ret = "pair"
             /\ last.msg = Msg("Saved {n} snippets", Len(last.data))
             /\ (last'.op = "load"
                   => /\ last'.ret = "pair"
                      /\ last'.list = last.data
                      /\ \A i \in 1..Len(last'.list) :
                            TypedSnippet(last'.list[i].d)) ]_vars

\* Two different canonical snippets have just been saved, and the load
\* that follows gives them back.
C1_Witness ==
    /\ last.op = "save"
    /\ last.ok
    /\ Len(last.data) = 2
    /\ last.data[1] # last.data[2]
    /\ CanonicalList(last.data)
    /\ LoadSnippets(file).list = last.data

\* The messages load_snippets gives with a failure.
LoadErrors ==
    {"Error loading snippets: {e}", "Error reading saved snippets file",
     "Invalid snippet format"}

\* C5: load_snippets never raises and never mixes success with error.  For
\* every state of the file it returns a (list, message) pair; a top-level
\* value that is no array gives ([], "Invalid snippet format"); a file that
\* cannot be parsed or read gives [] with an error diagnostic; a non-empty
\* list only ever comes with a non-error message.
C5_LoadNeverMixes ==
    last.op = "load"
      => /\ last.ret = "pair"
         /\ (file.k = "scalar"
               => last.list = <<>> /\ last.msg = Msg("Invalid snippet format", 0))
         /\ (file.k \in {"garbage", "unreadable"}
               => last.list = <<>> /\ last.msg.fmt \in LoadErrors)
         /\ (last.list # <<>>
               => last.msg \in {Msg("Loaded {n} saved snippets", Len(last.list)),
                                Msg("Created default snippets", 0)})

\* A load of a file that is not valid JSON has returned its diagnostic.
C5_Witness ==
    /\ last.op = "load"
    /\ file.k = "garbage"
    /\ last.list = <<>>
    /\ last.msg.fmt = "Error reading saved snippets file"

\* C6: every record load_snippets and import_from_file return has the five
\* canonical fields with the stated types; a tags value that is present but
\* is no list comes back as the empty list.
C6_NormalizedRecords ==
    (last.op \in {"load", "import"} /\ last.ret = "pair")
      => \A i \in 1..Len(last.list) : TypedSnippet(last.list[i].d)

\* C7: after a successful save_snippets(L) of mappings the file is a JSON
\* array of len(L) objects, each with all five canonical keys.
C7_SaveWritesFiveKeys ==
    (last.op = "save" /\ last.ok)
      => /\ file.k = "array"
         /\ Len(file.items) = Len(last.data)
         /\ \A i \in 1..Len(file.items) :
               /\ file.items[i].k = "dict"
               /\ CanonicalKeys \subseteq DOMAIN file.items[i].d

\* C8: importing a .json file whose top-level value is no array returns a
\* pair of an empty list and a descriptive message.
C8_ImportNonArrayIsPair ==
    (last.op = "import" /\ last.src.ext = "json" /\ last.src.k = "scalar")
      => /\ last.ret = "pair"
         /\ last.list = <<>>
         /\ last.msg.fmt # ""

\* C9: every public operation of the store layer returns a
\* (result, message) pair and none raises.
C9_EveryOperationReturnsPair ==
    last.op # "init" => last.ret = "pair"

\* C10: load_snippets returns one snippet per element of the persisted
\* array, in order; a bare string s becomes the snippet with text s, label
\* "", tags [] and both flags false.
C10_OneSnippetPerElement ==
    (last.op = "load" /\ file.k = "array")
      => /\ Len(last.list) = Len(file.items)
         /\ \A i \in 1..Len(file.items) :
               (i <= Len(last.list) /\ file.items[i].k = "str")
                 => last.list[i] = DictE([text |-> Str(file.items[i].s),
                                          label |-> Str(""),
                                          tags |-> List(<<>>),
                                          is_markdown |-> Bool(FALSE),
                                          is_template |-> Bool(FALSE)])

\* The snapshot a bulk operation loads from the store file.
Snapshot(f) == LoadSnippets(f).list

\* idx (counted from 0) addresses a record of a list of n records.
InRange(idx, n) == 0 <= idx /\ idx < n

\* The records of snap whose position (from 0) is not in the set S, in
\* their order: the j-th survivor is the one with j - 1 survivors before it.
Survivors(snap, S) ==
    LET keep == {i \in 1..Len(snap) : (i - 1) \notin S}
    IN [j \in 1..Cardinality(keep) |->
           snap[CHOOSE i \in keep :
                   Cardinality({x \in keep : x < i}) = j - 1]]

\* The snippets of a list all carry a list of tags.
TagsAreLists(snap) ==
    \A i \in 1..Len(snap) : IsList(DictGet(snap[i].d, "tags", Null))

\* A record as every save stores it: tags that is no list is stored as [].
TagsRepaired(e) ==
    IF IsList(DictGet(e.d, "tags", Null)) THEN e
    ELSE DictE([key \in (DOMAIN e.d) \cup {"tags"} |->
                   IF key = "tags" THEN List(<<>>) ELSE e.d[key]])

\* The indices of a set, each once, smallest first: one index list that
\* every index list with the same set of indices is a rearrangement of
\* (up to repetitions).
RECURSIVE Ascending(_)
Ascending(S) ==
    IF S = {} THEN <<>>
    ELSE LET least == CHOOSE x \in S : \A y \in S : x <= y
         IN <<least>> \o Ascending(S \ {least})

\* C2: bulk delete removes exactly the addressed records.  For a store whose
\* snapshot holds n >= 1 snippets and an index list with at least one index
\* in [0, n) (any order, duplicates, negative or too large entries), the
\* call succeeds and the store then holds exactly the snapshot's records
\* whose position is not in the index set, in their order (a foreign record
\* whose tags was no list is stored with tags []); the outcome is that of
\* the same indices given in ascending order, so every rearrangement of the
\* index list gives the same outcome.
C2_BulkDeleteExact ==
    [][ (/\ last'.op = "bulk_delete"
         /\ \E idx \in Range(last'.ids) : InRange(idx, Len(Snapshot(file))))
          => LET snap == Snapshot(file)
                 rest == Survivors(snap, Range(last'.ids))
             IN /\ last'.ok
                /\ file'.k = "array"
                /\ Len(file'.items) = Len(rest)
                /\ \A j \in 1..Len(rest) : file'.items[j] = TagsRepaired(rest[j])
                /\ (TagsAreLists(snap) => file'.items = rest)
                /\ BulkDeleteSnippets(file, Ascending(Range(last'.ids)),
                                      "ok").file = file' ]_vars

\* Indices 2 and 0, in this order, were deleted from a store of three
\* different snippets: only the middle one is left.
C2_Witness ==
    /\ last.op = "bulk_delete"
    /\ last.ok
    /\ last.ids = <<2, 0>>
    /\ file = Array(<<DictE(SnipB)>>)
    /\ last.msg = Msg("Deleted {n} snippets", 2)

\* new is old with every key of the patch set to the patch's value and
\* every other key as it was.
Patched(old, new, patch) ==
    /\ new.k = "dict"
    /\ DOMAIN new.d = (DOMAIN old.d) \cup (DOMAIN patch)
    /\ \A key \in DOMAIN patch : new.d[key] = patch[key]
    /\ \A key \in (DOMAIN old.d) \ (DOMAIN patch) : new.d[key] = old.d[key]

\* The same, except that a tags value that is no list is stored as [].
PatchedTagsRepaired(old, new, patch) ==
    /\ new.k = "dict"
    /\ DOMAIN new.d = (DOMAIN old.d) \cup (DOMAIN patch)
    /\ \A key \in DOMAIN new.d :
          LET val == IF key \in DOMAIN patch THEN patch[key] ELSE old.d[key]
          IN new.d[key] = IF key = "tags" /\ ~IsList(val) THEN List(<<>>)
                          ELSE val

\* The original statement of C3, for a persisted store of snippets (tags
\* are lists): after a successful bulk update every record at an in-range
\* index of the list equals its previous value with every key of the patch
\* set to the patch's value, every other record is unchanged, and so are
\* the length and the order of the array.
C3_PatchAlwaysWins ==
    [][ (/\ last'.op = "bulk_update"
         /\ last'.ok
         /\ file.k = "array"
         /\ TagsAreLists(Snapshot(file)))
          => LET snap == Snapshot(file)
             IN /\ file'.k = "array"
                /\ Len(file'.items) = Len(snap)
                /\ \A i \in 1..Len(snap) :
                      IF (i - 1) \in Range(last'.ids)
                      THEN Patched(snap[i], file'.items[i], last'.patch)
                      ELSE file'.items[i] = snap[i] ]_vars

\* C3 as amended: after a successful bulk update every record at an
\* in-range index of the list equals its previous value with every key of
\* the patch set to the patch's value, except that a tags value that is no
\* list is stored as []; every other record is unchanged (a foreign record
\* whose tags was no list is stored with tags []); the length and the order
\* of the array are unchanged.
C3_BulkUpdateMerges ==
    [][ (last'.op = "bulk_update" /\ last'.ok)
          => LET snap == Snapshot(file)
             IN /\ file'.k = "array"
                /\ Len(file'.items) = Len(snap)
                /\ \A i \in 1..Len(snap) :
                      IF (i - 1) \in Range(last'.ids)
                      THEN PatchedTagsRepaired(snap[i], file'.items[i],
                                               last'.patch)
                      ELSE /\ file'.items[i] = TagsRepaired(snap[i])
                           /\ (TagsAreLists(snap) => file'.items[i] = snap[i]) ]_vars

\* Records 0 and 2 of a store of three snippets were patched with a label
\* and the record between them was left as it was.
C3_Witness ==
    /\ last.op = "bulk_update"
    /\ last.ok
    /\ last.ids = <<2, 0>>
    /\ last.patch = [label |-> Str("home")]
    /\ file = Array(<<DictE(DictSet(SnipA, "label", Str("home"))),
                       DictE(SnipB),
                       DictE(DictSet(SnipA, "label", Str("home")))>>)

\* The original statement of C4: when every index is outside [0, n) for the
\* n snippets of the store, bulk update fails with the diagnostic
\* "No snippets were updated" and leaves the file as it was.
C4_AlwaysNoSnippetsWereUpdated ==
    [][ (/\ last'.op = "bulk_update"
         /\ file.k = "array"
         /\ \A idx \in Range(last'.ids) : ~InRange(idx, Len(Snapshot(file))))
          => /\ ~last'.ok
             /\ last'.msg = Msg("No snippets were updated", 0)
             /\ file' = file ]_vars

\* C4 as amended: when every index is outside [0, n) for the n snippets of
\* the store, bulk update updates nothing, returns a failure and leaves the
\* file exactly as it was; the diagnostic is "No snippets were updated"
\* when n >= 1 and "No snippets to update" when the store holds no snippet
\* (n = 0).
C4_NoIndexInRange ==
    [][ (/\ last'.op = "bulk_update"
         /\ \A idx \in Range(last'.ids) : ~InRange(idx, Len(Snapshot(file))))
          => /\ ~last'.ok
             /\ last'.ret = "pair"
             /\ file' = file
             /\ last'.msg = IF Len(Snapshot(file)) >= 1
                             THEN Msg("No snippets were updated", 0)
                             ELSE Msg("No snippets to update", 0) ]_vars

\* A bulk update of a store of three snippets with an index beyond the end
\* and a negative one has failed.
C4_Witness ==
    /\ last.op = "bulk_update"
    /\ ~last.ok
    /\ last.ids = <<3, -1>>
    /\ Len(file.items) = 3
    /\ Len(Snapshot(file)) = 3
    /\ last.msg = Msg("No snippets were updated", 0)


(***************************************************************************)
(* First run, import.                                                      *)
(***************************************************************************)
\* C11: while the store file does not exist, load_snippets returns exactly
\* the two seeds (the credential example, neither markdown nor template,
\* then the meeting notes, markdown and template) with the message
\* "Created default snippets" and leaves the file absent; only a save makes
\* the file exist.
C11_FirstRunSeeds ==
    [][ /\ (file.k = "absent" /\ last'.op = "load")
           => /\ file' = file
              /\ last'.ret = "pair"
              /\ last'.msg = Msg("Created default snippets", 0)
              /\ Len(last'.list) = 2
              /\ \A i \in 1..2 : TypedSnippet(last'.list[i].d)
              /\ last'.list[1].d.label = Str("WordPress Login")
              /\ last'.list[1].d.is_markdown = Bool(FALSE)
              /\ last'.list[1].d.is_template = Bool(FALSE)
              /\ last'.list[2].d.label = Str("Meeting Notes")
              /\ last'.list[2].d.is_markdown = Bool(TRUE)
              /\ last'.list[2].d.is_template = Bool(TRUE)
        /\ (file.k = "absent" /\ file'.k # "absent") => last'.op = "save" ]_vars

C11_Witness ==
    /\ last.op = "load"
    /\ file.k = "absent"
    /\ Len(last.list) = 2
    /\ last.msg.fmt = "Created default snippets"

\* C12: import_from_file never changes the store file, whatever the
\* imported file holds and whatever the outcome.
C12_ImportLeavesStore ==
    [][ last'.op = "import" => file' = file ]_vars

C12_Witness ==
    /\ last.op = "import"
    /\ last.ret = "pair"
    /\ Len(last.list) = 2
    /\ file = Array(<<DictE(SnipA)>>)

\* A line is blank when it holds whitespace only.
NonBlank(line) == \E i \in 1..Len(line) : line[i] \notin Whitespace

\* The position in lines of the j-th line that is not blank.
NthNonBlank(lines, j) ==
    CHOOSE i \in 1..Len(lines) :
        /\ NonBlank(lines[i])
        /\ Cardinality({k \in 1..i : NonBlank(lines[k])}) = j

\* t is line without its leading and trailing whitespace.
IsStripOf(t, line) ==
    \E a \in 1..Len(line) : \E b \in a..Len(line) :
        /\ t = SubSeq(line, a, b)
        /\ line[a] \notin Whitespace
        /\ line[b] \notin Whitespace
        /\ \A i \in 1..(a - 1) : line[i] \in Whitespace
        /\ \A i \in (b + 1)..Len(line) : line[i] \in Whitespace

\* C13: importing a readable file whose extension is not .json returns one
\* snippet per non-blank line, in file order, with the stripped line as
\* text, label "", tags [] and both flags false; blank lines give nothing.
C13_TextImport ==
    (last.op = "import" /\ last.src.ext # "json" /\ last.src.k = "text")
      => LET lines == last.src.lines
             n == Cardinality({k \in 1..Len(lines) : NonBlank(lines[k])})
         IN /\ last.ret = "pair"
            /\ Len(last.list) = n
            /\ last.msg = Msg("Imported {n} snippets from text file", n)
            /\ \A j \in 1..Len(last.list) :
                  LET d == last.list[j].d
                  IN /\ last.list[j].k = "dict"
                     /\ DOMAIN d = CanonicalKeys
                     /\ d.text.k = "str"
                     /\ j <= n => IsStripOf(d.text.v, lines[NthNonBlank(lines, j)])
                     /\ d.label = Str("")
                     /\ d.tags = List(<<>>)
                     /\ d.is_markdown = Bool(FALSE)
                     /\ d.is_template = Bool(FALSE)

C13_Witness ==
    /\ last.op = "import"
    /\ last.src.ext = "md"
    /\ last.src.lines = << <<" ", "\t", "\n">>, <<" ", "b", " ", "\n">> >>
    /\ Len(last.list) = 1
    /\ last.list[1].d.text = Text(<<"b">>)

(***************************************************************************)
(* Counts of the bulk operations.                                          *)
(***************************************************************************)
\* C14: the count a successful bulk_update_snippets reports is the number
\* of records of the loaded snapshot it updated (the distinct indices in
\* range), and the count a successful bulk_delete_snippets reports is the
\* number of records it removed.
C14_CountsAreRecords ==
    [][ /\ (file.k = "array" /\ last'.op = "bulk_update" /\ last'.ok)
           => last'.msg.n =
                Cardinality({i \in Range(last'.ids) :
                                InRange(i, Len(Snapshot(file)))})
        /\ (last'.op = "bulk_delete" /\ last'.ok)
           => last'.msg.n = Len(Snapshot(file)) - Len(file'.items) ]_vars

(***************************************************************************)
(* The tag index.                                                          *)
(***************************************************************************)
\* The tags a persisted element carries: those of its tags list (a bare
\* string, or a mapping whose tags is absent or no list, carries none).
CarriedTags(e) ==
    IF e.k = "dict" /\ "tags" \in DOMAIN e.d /\ e.d.tags.k = "list"
    THEN Range(e.d.tags.v) ELSE {}

\* C15: get_all_tags returns, without duplicates, exactly the tags carried
\* by the snippets persisted in the store file at the moment of the call.
C15_TagsOfPersistedStore ==
    (last.op = "get_all_tags" /\ file.k = "array")
      => /\ last.ret # "raise"
         /\ \A i, j \in 1..Len(last.tags) :
               last.tags[i] = last.tags[j] => i = j
         /\ Range(last.tags)
              = UNION {CarriedTags(file.items[i]) : i \in 1..Len(file.items)}

(***************************************************************************)
(* Categories.                                                             *)
(***************************************************************************)
\* C16: after a confirmed deletion of the selected category N (never
\* "default") whose final save meets no file-system failure, every snippet
\* that had label N has label "default" and is otherwise as before, every
\* other snippet is unchanged, no snippet has label N, N is in neither the
\* registry nor the categories list, and the store file holds exactly the
\* window's snippets.
C16_CategoryDeleteCascades ==
    [][ (last'.op = "delete_category" /\ last'.ok /\ last'.io = "ok")
          => LET N == win.rows[win.row + 1]
             IN /\ N # "default"
                /\ N \in Range(win.registry)
                /\ Len(win'.snippets) = Len(win.snippets)
                /\ \A i \in 1..Len(win.snippets) :
                      IF win.snippets[i].d.label = Str(N)
                      THEN win'.snippets[i] =
                             [win.snippets[i] EXCEPT !.d.label = Str("default")]
                      ELSE win'.snippets[i] = win.snippets[i]
                /\ \A i \in 1..Len(win'.snippets) :
                      win'.snippets[i].d.label # Str(N)
                /\ N \notin Range(win'.registry)
                /\ N \notin Range(win'.rows)
                /\ "default" \in Range(win'.registry)
                /\ file' = Array(win'.snippets) ]_vars

\* The category "Password" was deleted: its snippet now has label
\* "default" (no snippet of the stores drawn starts with that label), the
\* snippet labelled "work" kept its label, and both are in the file.
C16_Witness ==
    /\ last.op = "delete_category"
    /\ last.ok
    /\ last.io = "ok"
    /\ "Password" \notin Range(win.registry)
    /\ Len(win.snippets) = 2
    /\ win.snippets[1].d.text = Str("Password: hunter2")
    /\ win.snippets[1].d.label = Str("default")
    /\ win.snippets[2].d.label = Str("work")
    /\ file = Array(win.snippets)

(***************************************************************************)
(* Masking and password generation.                                        *)
(***************************************************************************)
\* The lines of a text, without their line breaks, and the text of lines.
RECURSIVE SplitLines(_)
SplitLines(text) ==
    IF \A k \in 1..Len(text) : text[k] # "\n" THEN <<text>>
    ELSE LET k == CHOOSE k \in 1..Len(text) :
                     /\ text[k] = "\n"
                     /\ \A j \in 1..(k - 1) : text[j] # "\n"
         IN <<SubSeq(text, 1, k - 1)>>
              \o SplitLines(SubSeq(text, k + 1, Len(text)))

RECURSIVE JoinLines(_)
JoinLines(lines) ==
    IF Len(lines) = 1 THEN lines[1]
    ELSE lines[1] \o <<"\n">> \o JoinLines(Tail(lines))

\* In line, position s holds the separator and position v starts the
\* value: a keyword, optional spaces, the separator, optional spaces, then
\* a character that is no whitespace.
FormAt(line, s, v) ==
    /\ 1 < s /\ s < v /\ v <= Len(line)
    /\ line[1] \in Keywords
    /\ \A k \in 2..(s - 1) : line[k] \in Whitespace
    /\ line[s] \in Separators
    /\ \A k \in (s + 1)..(v - 1) : line[k] \in Whitespace
    /\ line[v] \notin Whitespace

HasForm(line) == \E s, v \in 1..Len(line) : FormAt(line, s, v)

ValueStart(line) ==
    CHOOSE v \in 1..Len(line) : \E s \in 1..Len(line) : FormAt(line, s, v)

\* C17: on every line of the form keyword, optional spaces, ':' or '=',
\* optional spaces, value, the value is replaced by the marker and
\* everything before it is kept verbatim; a line that holds no keyword
\* comes back unchanged.
C17_MaskReplacesOnlyValue ==
    last.op = "mask"
      => LET lines == SplitLines(last.text)
             masked == SplitLines(last.out)
         IN /\ Len(masked) = Len(lines)
            /\ \A i \in 1..Len(lines) :
                  /\ (i <= Len(masked) /\ HasForm(lines[i]))
                       => masked[i] =
                            SubSeq(lines[i], 1, ValueStart(lines[i]) - 1)
                              \o <<"●●●●●●●●">>
                  /\ (i <= Len(masked)
                        /\ \A k \in 1..Len(lines[i]) : lines[i][k] \notin Keywords)
                       => masked[i] = lines[i]

\* C18: masking a text gives the same as masking its lines one by one and
\* joining them with the line breaks.
C18_MaskLineByLine ==
    last.op = "mask"
      => LET lines == SplitLines(last.text)
         IN last.out =
              JoinLines([i \in 1..Len(lines) |-> MaskSensitiveData(lines[i])])

\* C19: generate_password(length, use_uppercase, use_digits, use_special)
\* with length >= 0 returns exactly length characters, each a lowercase
\* letter or a character of a class that is enabled.
C19_PasswordFromEnabledClasses ==
    last.op = "generate_password"
      => /\ last.ret = "str"
         /\ Len(last.out) = last.opts.length
         /\ \A i \in 1..Len(last.out) :
               \/ last.out[i] \in PasswordChars.lowercase
               \/ last.opts.upper /\ last.out[i] \in PasswordChars.uppercase
               \/ last.opts.digits /\ last.out[i] \in PasswordChars.digits
               \/ last.opts.special /\ last.out[i] \in PasswordChars.special

C19_Witness ==
    /\ last.op = "generate_password"
    /\ last.opts = [length |-> MaxPwLen, upper |-> FALSE, digits |-> TRUE,
                    special |-> FALSE]
    /\ last.out[1] = "a"
    /\ last.out[2] = "9"
    /\ Len(last.out) = MaxPwLen


\* The lines of a text export for one snippet, each line the pieces it is
\* made of: the tags of a list separated by ", ".
CommaSeparated(ts) ==
    [j \in 1..(2 * Len(ts) - 1) |-> IF j % 2 = 1 THEN ts[(j + 1) \div 2] ELSE ", "]

TxtLines(d) ==
    (IF d.label.v # <<"">> THEN << <<"[", d.label.v[1], "]">> >> ELSE <<>>)
    \o (IF d.tags.v # <<>> THEN << <<"Tags: ">> \o CommaSeparated(d.tags.v) >>
        ELSE <<>>)
    \o (IF d.is_template = Bool(TRUE) THEN << <<"[TEMPLATE]">> >> ELSE <<>>)
    \o (IF d.is_markdown = Bool(TRUE) THEN << <<"[MARKDOWN]">> >> ELSE <<>>)
    \o << <<d.text.v[1]>>, <<>> >>

RECURSIVE EndLines(_)
EndLines(ls) ==
    IF ls = <<>> THEN <<>> ELSE Head(ls) \o <<"\n">> \o EndLines(Tail(ls))

RECURSIVE TxtDocument(_)
TxtDocument(snippets) ==
    IF snippets = <<>> THEN <<>>
    ELSE EndLines(TxtLines(Head(snippets).d)) \o TxtDocument(Tail(snippets))

\* A snippet as the application holds it: the five fields, tags a list.
IsSnippetE(e) ==
    /\ e.k = "dict"
    /\ {"text", "label", "tags", "is_markdown", "is_template"} \subseteq DOMAIN e.d
    /\ e.d.text.k = "str"
    /\ e.d.label.k = "str"
    /\ e.d.tags.k = "list"
    /\ e.d.is_markdown.k = "bool"
    /\ e.d.is_template.k = "bool"

\* C20: a text export of snippets that the file system carries out writes,
\* for each snippet in the order given, the [label] line if the label is
\* not empty, the "Tags: a, b" line if there are tags, the [TEMPLATE] line
\* if is_template, the [MARKDOWN] line if is_markdown, the body and one
\* empty line, and reports success with the number of snippets.
C20_TxtExportLayout ==
    (/\ last.op = "export"
     /\ last.text = <<"txt">>
     /\ last.io = "ok"
     /\ \A i \in 1..Len(last.data) : IsSnippetE(last.data[i]))
    => /\ last.ok
       /\ last.msg = Msg("Exported {n} snippets to TXT file", Len(last.data))
       /\ target = TextFile(TxtDocument(last.data))

C20_Witness ==
    /\ last.op = "export"
    /\ last.text = <<"txt">>
    /\ last.io = "ok"
    /\ last.ok
    /\ last.data = <<DictE(SnipB), DictE(SnipA)>>
    /\ target = TextFile(<<"[", "work", "]", "\n",
                           "Tags: ", "t1", ", ", "t2", "\n",
                           "[TEMPLATE]", "\n", "[MARKDOWN]", "\n",
                           "b", "\n", "\n", "a", "\n", "\n">>)


\* The lines of the section a markdown export writes for the n-th snippet.
MdLines(d, n) ==
    << <<"## ", ToString(n), ". ", d.label.v[1]>>, <<>> >>
    \o (IF d.tags.v # <<>>
        THEN << <<"**Tags**: ">> \o CommaSeparated(d.tags.v), <<>> >>
        ELSE <<>>)
    \o (IF d.is_template = Bool(TRUE) THEN << <<"**Template**">>, <<>> >>
        ELSE <<>>)
    \o (IF d.is_markdown = Bool(TRUE)
        THEN << <<"**Markdown Content**">>, <<>>, <<d.text.v[1]>>, <<>> >>
        ELSE << <<Fence>>, <<d.text.v[1]>>, <<Fence>>, <<>> >>)

RECURSIVE MdSections(_, _)
MdSections(snippets, n) ==
    IF n > Len(snippets) THEN <<>>
    ELSE EndLines(MdLines(snippets[n].d, n)) \o MdSections(snippets, n + 1)

MdDocument(snippets) ==
    EndLines(<< <<"# Exported Snippets">>, <<>>,
                <<"Exported on ", "{now}">>, <<>> >>)
    \o MdSections(snippets, 1)

\* C21: a markdown export of snippets that the file system carries out
\* writes the "# Exported Snippets" heading and then one "## n. label"
\* section per snippet, in the order given with n = 1, 2, ...; the body of
\* a markdown snippet as it is, any other body inside a code fence.
C21_MdExportLayout ==
    (/\ last.op = "export"
     /\ last.text = <<"md">>
     /\ last.io = "ok"
     /\ \A i \in 1..Len(last.data) : IsSnippetE(last.data[i]))
    => /\ last.ok
       /\ target = TextFile(MdDocument(last.data))

C21_Witness ==
    /\ last.op = "export"
    /\ last.text = <<"md">>
    /\ last.io = "ok"
    /\ last.ok
    /\ last.data = <<DictE(SnipA), DictE(SnipB)>>
    /\ target = TextFile(<<"# Exported Snippets", "\n", "\n",
                           "Exported on ", "{now}", "\n", "\n",
                           "## ", "1", ". ", "", "\n", "\n",
                           Fence, "\n", "a", "\n", Fence, "\n", "\n",
                           "## ", "2", ". ", "work", "\n", "\n",
                           "**Tags**: ", "t1", ", ", "t2", "\n", "\n",
                           "**Template**", "\n", "\n",
                           "**Markdown Content**", "\n", "\n",
                           "b", "\n", "\n">>)

\* C30: an export in a format other than txt, html and md does not report
\* success and leaves the target file as it was (not created, not
\* emptied); success is reported only for one of the three formats.
C30_OnlyThreeFormats ==
    [][ (last'.op = "export" /\ last'.text[1] \notin {"txt", "html", "md"})
        => (~last'.ok /\ target' = target) ]_vars


\* C24: a save or a bulk operation on a store file that is absent or holds
\* a JSON array leaves it absent or holding a JSON array, also when the
\* call reports failure (a record that cannot be serialized, a write
\* error): a failed save never leaves the file emptied or partly written.
C24_FileStaysAnArray ==
    [][ (/\ file.k \in {"absent", "array"}
         /\ last'.op \in {"save", "bulk_update", "bulk_delete"})
        => file'.k \in {"absent", "array"} ]_vars


\* A store file that exists and gives load_snippets nothing: not valid
\* JSON, no array at the top level, or an empty array.
NothingToLoad(f) == f.k \in {"garbage", "scalar"} \/ f = Array(<<>>)

\* C27: on a store file that exists but cannot be loaded or holds an empty
\* array, a bulk update and a bulk delete return failure for every index
\* list and patch and leave the file as it was; get_all_tags and
\* get_template_snippets leave every file as it was.
C27_BulkLeavesUnreadStore ==
    [][ /\ (NothingToLoad(file) /\ last'.op \in {"bulk_update", "bulk_delete"})
           => (~last'.ok /\ file' = file)
        /\ last'.op \in {"get_all_tags", "get_template_snippets"}
           => file' = file ]_vars

C27_Witness ==
    /\ last.op = "bulk_delete"
    /\ last.ids = <<0>>
    /\ ~last.ok
    /\ last.msg = Msg("No snippets to delete", 0)
    /\ file = Garbage


NoDuplicates(ts) == \A i, j \in 1..Len(ts) : ts[i] = ts[j] => i = j

\* The tags of widget i of a window.
TagsAt(w, i) == w.snippets[i].d.tags.v

\* What adding tag t makes of a tag list.
WithTag(ts, t) == IF t = "" \/ t \in Range(ts) THEN ts ELSE Append(ts, t)

\* C28: add_tag(t) on a widget, and Add Tag on a selection once the store
\* took the change, leave every tag list without duplicates, t in it once
\* and last, the other tags in their order; an empty tag (on both paths)
\* and a tag the widget already holds (add_tag) change nothing and save
\* nothing.  A second add of the same tag is such a step.
C28_AddTagDeduplicates ==
    [][ /\ last'.op = "add_tag"
           => LET i == last'.ids[1] + 1
                  t == last'.text[1]
              IN /\ TagsAt(win', i) = WithTag(TagsAt(win, i), t)
                 /\ NoDuplicates(TagsAt(win, i)) => NoDuplicates(TagsAt(win', i))
                 /\ \A j \in 1..Len(win.snippets) :
                        j # i => win'.snippets[j] = win.snippets[j]
                 /\ (t = "" \/ t \in Range(TagsAt(win, i)))
                    => /\ win'.snippets = win.snippets
                       /\ file' = file
                       /\ last'.saves = 0
        /\ (last'.op = "add_tag_to_selected" /\ last'.ok /\ last'.io = "ok")
           => \A j \in 1..Len(win.snippets) :
                  /\ TagsAt(win', j) =
                        (IF (j - 1) \in Range(last'.ids)
                         THEN WithTag(TagsAt(win, j), last'.text[1])
                         ELSE TagsAt(win, j))
                  /\ NoDuplicates(TagsAt(win, j)) => NoDuplicates(TagsAt(win', j))
        /\ (last'.op = "add_tag_to_selected" /\ last'.text = <<"">>)
           => /\ win'.snippets = win.snippets
              /\ file' = file
              /\ last'.saves = 0 ]_vars

C28_Witness ==
    /\ last.op = "add_tag_to_selected"
    /\ last.ok
    /\ last.text = <<"t2">>
    /\ last.ids = <<0>>
    /\ last.data[1].d.tags = List(<<"t1">>)
    /\ win.snippets[1].d.tags = List(<<"t1", "t2">>)
    /\ file.k = "array"
    /\ file.items[1].d.tags = List(<<"t1", "t2">>)

\* C28 as stated: adding a tag that every snippet addressed already holds,
\* or an empty tag, changes nothing and triggers no save, on a single
\* snippet and on a selection.
C28_PresentTagSavesNothing ==
    [][ (/\ last'.op \in {"add_tag", "add_tag_to_selected"}
         /\ last'.ids # <<>>
         /\ \/ last'.text = <<"">>
            \/ \A k \in 1..Len(last'.ids) :
                   last'.text[1] \in Range(TagsAt(win, last'.ids[k] + 1)))
        => /\ win'.snippets = win.snippets
           /\ file' = file
           /\ last'.saves = 0 ]_vars


\* C23: masking is for display only: whatever the user does (masking a
\* snippet, then an edit of another one, a tag, a label, closing the
\* window), the text the store holds for a snippet never has the marker in
\* place of a credential value.
C23_StoreHoldsRealText ==
    file.k = "array"
    => \A i \in 1..Len(file.items) :
           Marker[1] \notin Range(file.items[i].d.text.v)


\* The snippets of the widgets whose checkbox is not ticked, in order.
Unselected(w) ==
    LET keep == SelectSeq([i \in 1..Len(w.snippets) |-> i],
                          LAMBDA i : ~w.behind[i].selected)
    IN [k \in 1..Len(keep) |-> w.snippets[keep[k]]]

\* C25: a confirmed Delete Selected that reports success, in a window
\* showing every text unmasked, leaves in the store the snippets shown
\* before minus the selected ones (their text, label, tags and flags), and
\* the view shows them again (one empty snippet when none is left).
C25_DeleteSelectedRemovesThose ==
    [][ (/\ last'.op = "delete_selected"
         /\ last'.ok
         /\ \A i \in 1..Len(win.snippets) : ~win.behind[i].masked)
        => /\ file'.k = "array"
           /\ [i \in 1..Len(file'.items) |-> WidgetOf(file'.items[i])]
                  = Unselected(win)
           /\ win'.snippets = (IF Unselected(win) = <<>> THEN <<EmptyWidget>>
                               ELSE Unselected(win)) ]_vars

\* C26: a store file that did not load at start-up (no valid JSON, or no
\* array at the top level) is as it was after the window is opened and
\* closed with nothing done in between.
C26_UnloadedStoreKept ==
    [][ (/\ last.op = "init"
         /\ file.k \in {"garbage", "scalar"}
         /\ last'.op = "close")
        => file' = file ]_vars

\* C29: after an import through the window that saved, the store holds the
\* snippets import_from_file returned, in order, each with its text, label,
\* tags, is_markdown and is_template.
C29_ImportKeepsFields ==
    [][ (last'.op = "import_snippets" /\ last'.ok /\ last'.io = "ok")
        => file' = Array(last'.list) ]_vars


\* A whole call on store f, nothing else touching the store meanwhile.
Alone(f, c) ==
    CASE c.kind = "bulk_update" -> BulkUpdateSnippets(f, c.ids, c.patch, "ok").file
      [] c.kind = "bulk_delete" -> BulkDeleteSnippets(f, c.ids, "ok").file
      [] OTHER ->
             LET shown == WindowLoad(f)
                 i == c.ids[1] + 1
             IN SaveSnippets(f, [shown EXCEPT ![i] =
                                    DictE(DictUpdate(shown[i].d, c.patch))],
                             "ok").file

Interleaved ==
    calls.log = << <<"A", "load">>, <<"B", "load">>, <<"A", "mutate">>,
                   <<"A", "save">>, <<"B", "mutate">>, <<"B", "save">> >>

OneAfterTheOther ==
    calls.log = << <<"A", "load">>, <<"A", "mutate">>, <<"A", "save">>,
                   <<"B", "load">>, <<"B", "mutate">>, <<"B", "save">> >>

\* C22: two calls A and B that both report success.  Taken as load A,
\* load B, mutate A, save A, mutate B, save B they leave the store as B
\* alone would have left it: what A changed is gone.  Taken one after the
\* other they leave the store as A and then B leave it.
C22_LostUpdate ==
    /\ (Interleaved /\ calls.A.ok /\ calls.B.ok)
       => file = Alone(calls.start, calls.B)
    /\ (OneAfterTheOther /\ calls.A.ok /\ calls.B.ok)
       => file = Alone(Alone(calls.start, calls.A), calls.B)

C22_Witness ==
    /\ Interleaved
    /\ calls.A.ok
    /\ calls.B.ok
    /\ calls.A.kind = "bulk_update"
    /\ calls.B.kind = "edit"
    /\ file = Alone(calls.start, calls.B)
    /\ file # Alone(Alone(calls.start, calls.A), calls.B)
    /\ Alone(calls.start, calls.A) # calls.start

====
